---------------------------- MODULE Spec2Model ----------------------------
(***************************************************************************)
(* WCAG 2.1/2.2 Level AA colour-contrast audit (03_analyze_wcag.py).       *)
(*                                                                         *)
(* The analysis engine is a set of pure functions.  Each one is an         *)
(* operator of this module, written as the Python computes it; a           *)
(* specification draws the arguments of one call in Init and applies the   *)
(* function in its action.                                                 *)
(*                                                                         *)
(* Representation.                                                         *)
(*  - A Python str is a TLA+ string; s[i] is Ch(s, i + 1).                 *)
(*  - A value a function returns is Ret(v); an exception that leaves it is *)
(*    Raise(<exception class>).  Python's None is the empty tuple, an RGB  *)
(*    tuple is <<r, g, b>>, a dict is a record whose DOMAIN is its keys.   *)
(*  - A float is a fixed-point integer.  A CSS number is counted in        *)
(*    1/FloatScale.  A luminance is counted in 1/LumScale, a contrast      *)
(*    ratio is kept as the fraction num/den of two luminances plus 0.05,   *)
(*    and round(ratio, 2) is a number of hundredths.                       *)
(***************************************************************************)
EXTENDS Integers, Sequences, FiniteSets, TLC

VARIABLES
    pc,           \* the function about to be called, then "done"
    rgb1, rgb2,   \* the arguments of a contrast_ratio call
    ratio,        \* its return value
    value,        \* the argument of a parse_color call
    parsed,       \* what it returned or raised
    html,         \* the argument of an analyze_html call or of a feed call
    result,       \* what analyze_html returned or raised
    ext,          \* the StyleExtractor that is being fed
    fed,          \* the number of events of html its handlers have had
    sheet,        \* the argument of a _parse_declarations or
                  \* extract_colors_from_css call
    extracted,    \* what it returned or raised
    session,      \* the analyze_html calls of a session, each with its result
    module_state, \* the module-level names analyze_html reads
    rounding,     \* per document, how the float mean falls at a decimal tie
    html_files,   \* the (file, domain) items main found in HTML_DIR
    futures,      \* per item, what its worker returned or raised, Idle while it runs
    yielded,      \* the items whose future as_completed has yielded
    results,      \* the list main collects
    saved,        \* results_summary and results_full, once written
    report,       \* what the report stage made of the saved results
    chunked,      \* the bytes _decode_chunked is called with
    read_pos,     \* pos, the read position of _decode_chunked
    decoded       \* result, the bytes decoded so far

vars == <<pc, rgb1, rgb2, ratio, value, parsed, html, result, ext, fed,
          sheet, extracted,
          session, module_state, rounding,
          html_files, futures, yielded, results, saved, report,
          chunked, read_pos, decoded>>

\* The value of a result variable before the call.
Idle == [idle |-> TRUE]
\* A returned value, and an exception propagating out of a call.
Ret(v) == [val |-> v]
Raise(e) == [exc |-> e]
IsRet(x) == DOMAIN x = {"val"}
IsRaise(x) == DOMAIN x = {"exc"}
\* Python's None, where the other values are tuples.
None == <<>>

Max(a, b) == IF a >= b THEN a ELSE b
Min(a, b) == IF a <= b THEN a ELSE b
Abs(a) == IF a >= 0 THEN a ELSE -a
SetMin(S) == CHOOSE x \in S : \A y \in S : x <= y
SetMax(S) == CHOOSE x \in S : \A y \in S : x >= y

-----------------------------------------------------------------------------
(* Python str methods                                                      *)

\* The character at index i, the empty string outside the string.
Ch(s, i) == IF i \in 1..Len(s) THEN SubSeq(s, i, i) ELSE ""

\* The characters str.strip() and the regex class \s remove.
Whitespace == {" ", "\t", "\n", "\r", "\f"}

UpperCase == "ABCDEFGHIJKLMNOPQRSTUVWXYZ"
LowerCase == "abcdefghijklmnopqrstuvwxyz"
LowerOf ==
    [c \in {Ch(UpperCase, i) : i \in 1..26} |->
        Ch(LowerCase, CHOOSE i \in 1..26 : Ch(UpperCase, i) = c)]

RECURSIVE lower(_)
lower(s) ==
    IF s = "" THEN ""
    ELSE (IF Head(s) \in DOMAIN LowerOf THEN LowerOf[Head(s)] ELSE Head(s))
            \o lower(Tail(s))

strip(s) ==
    LET keep == {i \in 1..Len(s) : Ch(s, i) \notin Whitespace}
    IN  IF keep = {} THEN "" ELSE SubSeq(s, SetMin(keep), SetMax(keep))

\* s.lstrip(c): every leading c is removed.
lstrip(s, c) ==
    LET keep == {i \in 1..Len(s) : Ch(s, i) # c}
    IN  IF keep = {} THEN "" ELSE SubSeq(s, SetMin(keep), Len(s))

startswith(s, p) == Len(s) >= Len(p) /\ SubSeq(s, 1, Len(p)) = p
endswith(s, p) == Len(s) >= Len(p) /\ SubSeq(s, Len(s) - Len(p) + 1, Len(s)) = p

\* The first index >= i of s whose character is in (not in) C, Len(s) + 1
\* when there is none.
FindIn(s, i, C) ==
    LET hit == {j \in i..Len(s) : Ch(s, j) \in C}
    IN  IF hit = {} THEN Len(s) + 1 ELSE SetMin(hit)
FindNotIn(s, i, C) ==
    LET hit == {j \in i..Len(s) : Ch(s, j) \notin C}
    IN  IF hit = {} THEN Len(s) + 1 ELSE SetMin(hit)

\* re.split(seps+, s) without the empty pieces: the maximal runs of
\* characters outside seps, from index i on.
RECURSIVE Fields(_, _, _)
Fields(s, i, seps) ==
    LET b == FindNotIn(s, i, seps)
        e == FindIn(s, b, seps)
    IN  IF b > Len(s) THEN <<>>
        ELSE <<SubSeq(s, b, e - 1)>> \o Fields(s, e, seps)

\* s.replace(old, new), leftmost non-overlapping occurrences.
RECURSIVE replace(_, _, _)
replace(s, old, new) ==
    IF Len(s) < Len(old) THEN s
    ELSE IF startswith(s, old)
         THEN new \o replace(SubSeq(s, Len(old) + 1, Len(s)), old, new)
         ELSE Head(s) \o replace(Tail(s), old, new)

\* old in s
contains(s, old) ==
    \E i \in 1..(Len(s) - Len(old) + 1) : SubSeq(s, i, i + Len(old) - 1) = old

-----------------------------------------------------------------------------
(* Color parsing                                                           *)

NAMED_COLORS ==
    [
       aliceblue |-> <<240, 248, 255>>, antiquewhite |-> <<250, 235, 215>>, aqua |-> <<0, 255, 255>>,
       aquamarine |-> <<127, 255, 212>>, azure |-> <<240, 255, 255>>, beige |-> <<245, 245, 220>>,
       bisque |-> <<255, 228, 196>>, black |-> <<0, 0, 0>>, blanchedalmond |-> <<255, 235, 205>>,
       blue |-> <<0, 0, 255>>, blueviolet |-> <<138, 43, 226>>, brown |-> <<165, 42, 42>>,
       burlywood |-> <<222, 184, 135>>, cadetblue |-> <<95, 158, 160>>, chartreuse |-> <<127, 255, 0>>,
       chocolate |-> <<210, 105, 30>>, coral |-> <<255, 127, 80>>, cornflowerblue |-> <<100, 149, 237>>,
       cornsilk |-> <<255, 248, 220>>, crimson |-> <<220, 20, 60>>, cyan |-> <<0, 255, 255>>,
       darkblue |-> <<0, 0, 139>>, darkcyan |-> <<0, 139, 139>>, darkgoldenrod |-> <<184, 134, 11>>,
       darkgray |-> <<169, 169, 169>>, darkgreen |-> <<0, 100, 0>>, darkgrey |-> <<169, 169, 169>>,
       darkkhaki |-> <<189, 183, 107>>, darkmagenta |-> <<139, 0, 139>>, darkolivegreen |-> <<85, 107, 47>>,
       darkorange |-> <<255, 140, 0>>, darkorchid |-> <<153, 50, 204>>, darkred |-> <<139, 0, 0>>,
       darksalmon |-> <<233, 150, 122>>, darkseagreen |-> <<143, 188, 143>>, darkslateblue |-> <<72, 61, 139>>,
       darkslategray |-> <<47, 79, 79>>, darkslategrey |-> <<47, 79, 79>>, darkturquoise |-> <<0, 206, 209>>,
       darkviolet |-> <<148, 0, 211>>, deeppink |-> <<255, 20, 147>>, deepskyblue |-> <<0, 191, 255>>,
       dimgray |-> <<105, 105, 105>>, dimgrey |-> <<105, 105, 105>>, dodgerblue |-> <<30, 144, 255>>,
       firebrick |-> <<178, 34, 34>>, floralwhite |-> <<255, 250, 240>>, forestgreen |-> <<34, 139, 34>>,
       fuchsia |-> <<255, 0, 255>>, gainsboro |-> <<220, 220, 220>>, ghostwhite |-> <<248, 248, 255>>,
       gold |-> <<255, 215, 0>>, goldenrod |-> <<218, 165, 32>>, gray |-> <<128, 128, 128>>,
       green |-> <<0, 128, 0>>, greenyellow |-> <<173, 255, 47>>, grey |-> <<128, 128, 128>>,
       honeydew |-> <<240, 255, 240>>, hotpink |-> <<255, 105, 180>>, indianred |-> <<205, 92, 92>>,
       indigo |-> <<75, 0, 130>>, ivory |-> <<255, 255, 240>>, khaki |-> <<240, 230, 140>>,
       lavender |-> <<230, 230, 250>>, lavenderblush |-> <<255, 240, 245>>, lawngreen |-> <<124, 252, 0>>,
       lemonchiffon |-> <<255, 250, 205>>, lightblue |-> <<173, 216, 230>>, lightcoral |-> <<240, 128, 128>>,
       lightcyan |-> <<224, 255, 255>>, lightgoldenrodyellow |-> <<250, 250, 210>>, lightgray |-> <<211, 211, 211>>,
       lightgreen |-> <<144, 238, 144>>, lightgrey |-> <<211, 211, 211>>, lightpink |-> <<255, 182, 193>>,
       lightsalmon |-> <<255, 160, 122>>, lightseagreen |-> <<32, 178, 170>>, lightskyblue |-> <<135, 206, 250>>,
       lightslategray |-> <<119, 136, 153>>, lightslategrey |-> <<119, 136, 153>>, lightsteelblue |-> <<176, 196, 222>>,
       lightyellow |-> <<255, 255, 224>>, lime |-> <<0, 255, 0>>, limegreen |-> <<50, 205, 50>>,
       linen |-> <<250, 240, 230>>, magenta |-> <<255, 0, 255>>, maroon |-> <<128, 0, 0>>,
       mediumaquamarine |-> <<102, 205, 170>>, mediumblue |-> <<0, 0, 205>>, mediumorchid |-> <<186, 85, 211>>,
       mediumpurple |-> <<147, 111, 219>>, mediumseagreen |-> <<60, 179, 113>>, mediumslateblue |-> <<123, 104, 238>>,
       mediumspringgreen |-> <<0, 250, 154>>, mediumturquoise |-> <<72, 209, 204>>, mediumvioletred |-> <<199, 21, 133>>,
       midnightblue |-> <<25, 25, 112>>, mintcream |-> <<245, 255, 250>>, mistyrose |-> <<255, 228, 225>>,
       moccasin |-> <<255, 228, 181>>, navajowhite |-> <<255, 222, 173>>, navy |-> <<0, 0, 128>>,
       oldlace |-> <<253, 245, 230>>, olive |-> <<128, 128, 0>>, olivedrab |-> <<107, 142, 35>>,
       orange |-> <<255, 165, 0>>, orangered |-> <<255, 69, 0>>, orchid |-> <<218, 112, 214>>,
       palegoldenrod |-> <<238, 232, 170>>, palegreen |-> <<152, 251, 152>>, paleturquoise |-> <<175, 238, 238>>,
       palevioletred |-> <<219, 112, 147>>, papayawhip |-> <<255, 239, 213>>, peachpuff |-> <<255, 218, 185>>,
       peru |-> <<205, 133, 63>>, pink |-> <<255, 192, 203>>, plum |-> <<221, 160, 221>>,
       powderblue |-> <<176, 224, 230>>, purple |-> <<128, 0, 128>>, rebeccapurple |-> <<102, 51, 153>>,
       red |-> <<255, 0, 0>>, rosybrown |-> <<188, 143, 143>>, royalblue |-> <<65, 105, 225>>,
       saddlebrown |-> <<139, 69, 19>>, salmon |-> <<250, 128, 114>>, sandybrown |-> <<244, 164, 96>>,
       seagreen |-> <<46, 139, 87>>, seashell |-> <<255, 245, 238>>, sienna |-> <<160, 82, 45>>,
       silver |-> <<192, 192, 192>>, skyblue |-> <<135, 206, 235>>, slateblue |-> <<106, 90, 205>>,
       slategray |-> <<112, 128, 144>>, slategrey |-> <<112, 128, 144>>, snow |-> <<255, 250, 250>>,
       springgreen |-> <<0, 255, 127>>, steelblue |-> <<70, 130, 180>>, tan |-> <<210, 180, 140>>,
       teal |-> <<0, 128, 128>>, thistle |-> <<216, 191, 216>>, tomato |-> <<255, 99, 71>>,
       turquoise |-> <<64, 224, 208>>, violet |-> <<238, 130, 238>>, wheat |-> <<245, 222, 179>>,
       white |-> <<255, 255, 255>>, whitesmoke |-> <<245, 245, 245>>, yellow |-> <<255, 255, 0>>,
       yellowgreen |-> <<154, 205, 50>>
    ]

\* The keywords parse_color skips.
NonColorValues ==
    {"transparent", "inherit", "initial", "unset", "currentcolor",
     "none", "auto", "revert"}

HexDigits == "0123456789abcdef"
Digits == "0123456789"
DigitOf == [c \in {Ch(HexDigits, i) : i \in 1..16} \cup {Ch(UpperCase, i) : i \in 1..6} |->
               IF \E i \in 1..16 : Ch(HexDigits, i) = c
               THEN (CHOOSE i \in 1..16 : Ch(HexDigits, i) = c) - 1
               ELSE (CHOOSE i \in 1..6 : Ch(UpperCase, i) = c) + 9]
IsHexDigit(c) == c \in DOMAIN DigitOf
IsDigit(c) == c \in {Ch(Digits, i) : i \in 1..10}

\* The value of a string of hexadecimal digits.
RECURSIVE HexValue(_)
HexValue(s) ==
    IF s = "" THEN 0
    ELSE 16 * HexValue(SubSeq(s, 1, Len(s) - 1)) + DigitOf[Ch(s, Len(s))]

\* int(s, 16) for the one- and two-character strings parse_hex passes:
\* surrounding whitespace is ignored, one sign is allowed, the rest must be
\* one or more hexadecimal digits ("0x" and "_" need a third character to be
\* valid).  Anything else raises ValueError.
IntOfHexDigits(sign, digits) ==
    IF digits = "" \/ \E i \in 1..Len(digits) : ~IsHexDigit(Ch(digits, i))
    THEN Raise("ValueError")
    ELSE Ret(sign * HexValue(digits))
IntBase16Stripped(t) ==
    IntOfHexDigits(IF Ch(t, 1) = "-" THEN -1 ELSE 1,
                   IF Ch(t, 1) \in {"+", "-"} THEN Tail(t) ELSE t)
IntBase16(s) == IntBase16Stripped(strip(s))

\* The tuple (r, g, b) of three int() calls, or the first exception.
Triple(r, g, b) ==
    IF IsRaise(r) THEN r
    ELSE IF IsRaise(g) THEN g
    ELSE IF IsRaise(b) THEN b
    ELSE Ret(<<r.val, g.val, b.val>>)

\* Faulty variant of HexChannel: a digit of the short forms is not doubled.
MutHexChannelSingle(s, i) ==
    IF Len(s) < 6 THEN IntBase16(Ch(s, i))
    ELSE IntBase16(SubSeq(s, 2 * i - 1, 2 * i))

\* The channels of the stripped literal s: s[i]*2 for the short forms,
\* s[2i-2:2i] for the long ones.
HexChannel(s, i) ==
    IF Len(s) < 6 THEN IntBase16(Ch(s, i) \o Ch(s, i))
    ELSE IntBase16(SubSeq(s, 2 * i - 1, 2 * i))
HexChannels(s) ==
    IF Len(s) \in {3, 4, 6, 8}
    THEN Triple(HexChannel(s, 1), HexChannel(s, 2), HexChannel(s, 3))
    ELSE Ret(None)

\* #RGB, #RRGGBB, #RGBA or #RRGGBBAA to (R, G, B).
parse_hex(str) == HexChannels(lstrip(strip(str), "#"))
\* A float: a finite number counted in 1/FloatScale, an infinity or a NaN.
FloatScale == 1000
FloatDigits == 3
\* The largest magnitude kept apart, 8000.000; a larger one is kept as this
\* one, which rgb() clamps to the same channel.
FloatMax == 8000000
Fin(m) == [kind |-> "fin", milli |-> m]
Inf(sign) == [kind |-> "inf", milli |-> sign]
NaN == [kind |-> "nan", milli |-> 0]

\* The value of a string of decimal digits.
RECURSIVE DecValue(_)
DecValue(s) ==
    IF s = "" THEN 0
    ELSE 10 * DecValue(SubSeq(s, 1, Len(s) - 1)) + DigitOf[Ch(s, Len(s))]

\* x truncated toward zero, as int(x) does, for x = a/b with b > 0.
TruncDiv(a, b) == IF a >= 0 THEN a \div b ELSE -((-a) \div b)

\* The magnitude of a decimal, in 1/FloatScale: whole without its leading
\* zeros, frac cut to FloatDigits digits.
Magnitude(digits, frac) ==
    IF Len(digits) > 4 THEN FloatMax
    ELSE Min(FloatMax, FloatScale * DecValue(digits)
                         + DecValue(SubSeq(frac \o "000", 1, FloatDigits)))
FloatOfDecimal(sign, whole, frac) ==
    IF /\ \A i \in 1..Len(whole) : IsDigit(Ch(whole, i))
       /\ \A i \in 1..Len(frac) : IsDigit(Ch(frac, i))
       /\ whole \o frac # ""
    THEN Ret(Fin(sign * Magnitude(lstrip(whole, "0"), frac)))
    ELSE Raise("ValueError")
FloatOfPointed(sign, body, dot) ==
    FloatOfDecimal(sign, SubSeq(body, 1, dot - 1), SubSeq(body, dot + 1, Len(body)))
FloatOfUnsigned(sign, body) ==
    IF body \in {"inf", "infinity"} THEN Ret(Inf(sign))
    ELSE IF body = "nan" THEN Ret(NaN)
    ELSE FloatOfPointed(sign, body, FindIn(body, 1, {"."}))
\* float(s): optional whitespace and sign, then "inf", "infinity", "nan" or
\* decimal digits with at most one point and at least one digit; ValueError
\* otherwise.  Digits past the third decimal are dropped.  (Exponents and
\* digit-group underscores are not part of the grammar modelled here.)
FloatOfStripped(t) ==
    FloatOfUnsigned(IF Ch(t, 1) = "-" THEN -1 ELSE 1,
                    IF Ch(t, 1) \in {"+", "-"} THEN Tail(t) ELSE t)
ParseFloat(s) == FloatOfStripped(lower(strip(s)))

\* int(x): the integer part of a finite float; OverflowError for an
\* infinity, ValueError for a NaN.  num/den is the float.
IntOf(kind, num, den) ==
    IF kind = "inf" THEN Raise("OverflowError")
    ELSE IF kind = "nan" THEN Raise("ValueError")
    ELSE Ret(TruncDiv(num, den))

\* One channel of rgb(): int(float(p[:-1]) * 255 / 100) for a percentage,
\* int(float(p)) otherwise.
IntOfFloat(f, mul, den) ==
    IF IsRaise(f) THEN f ELSE IntOf(f.val.kind, f.val.milli * mul, den)
RgbChannel(p) ==
    IF endswith(p, "%")
    THEN IntOfFloat(ParseFloat(SubSeq(p, 1, Len(p) - 1)), 255, 100 * FloatScale)
    ELSE IntOfFloat(ParseFloat(p), 1, FloatScale)

\* re.match(name "a?\s*\(\s*([^)]+)\)", t): <<group 1>>, or <<>> when the
\* pattern does not match at the start of t.
FuncMatchClose(t, open, close) ==
    IF close <= Len(t) /\ close > open + 1
    THEN <<SubSeq(t, open + 1, close - 1)>>
    ELSE <<>>
FuncMatchOpen(t, open) ==
    IF Ch(t, open) = "(" THEN FuncMatchClose(t, open, FindIn(t, open + 1, {")"}))
    ELSE <<>>
FuncMatch(t, name) ==
    IF startswith(t, name)
    THEN FuncMatchOpen(t, FindNotIn(t, IF Ch(t, Len(name) + 1) = "a"
                                       THEN Len(name) + 2 ELSE Len(name) + 1,
                                    Whitespace))
    ELSE <<>>

\* re.split(r"[,/\s]+", group) without the empty parts.
ArgSeparators == {",", "/"} \cup Whitespace
FuncParts(group) == Fields(strip(group), 1, ArgSeparators)

\* Faulty variant of Clamp255: the value is not clamped.
MutClampNone(v) == v

Clamp255(v) == Max(0, Min(255, v))

\* The channels of rgb() are converted in order; vals are those converted so
\* far.  The first conversion that fails decides, a ValueError being caught
\* (None) and an OverflowError leaving the function.
RECURSIVE RgbChannels(_, _)
RgbChannelsNext(parts, vals, v) ==
    IF IsRaise(v) THEN (IF v.exc = "ValueError" THEN Ret(None) ELSE v)
    ELSE RgbChannels(parts, Append(vals, v.val))
RgbChannels(parts, vals) ==
    IF Len(vals) = 3
    THEN Ret(<<Clamp255(vals[1]), Clamp255(vals[2]), Clamp255(vals[3])>>)
    ELSE RgbChannelsNext(parts, vals, RgbChannel(parts[Len(vals) + 1]))
RgbOfParts(parts) ==
    IF Len(parts) < 3 THEN Ret(None) ELSE RgbChannels(parts, <<>>)
RgbOfMatch(m) ==
    IF m = <<>> THEN Ret(None) ELSE RgbOfParts(FuncParts(m[1]))

\* rgb(R, G, B) or rgba(R, G, B, A) to (R, G, B).
parse_rgb(str) == RgbOfMatch(FuncMatch(strip(str), "rgb"))
\* IEEE arithmetic on the classes of floats that decide hsl_to_rgb once an
\* argument is not finite: "nan", "+inf", "-inf", and the sign of a finite
\* number ("+", "0", "-").
ClassOf(f) ==
    IF f.kind = "nan" THEN "nan"
    ELSE IF f.kind = "inf" THEN (IF f.milli > 0 THEN "+inf" ELSE "-inf")
    ELSE IF f.milli > 0 THEN "+" ELSE IF f.milli < 0 THEN "-" ELSE "0"
SignClass(n) == IF n > 0 THEN "+" ELSE IF n < 0 THEN "-" ELSE "0"
XNeg(a) ==
    CASE a = "+inf" -> "-inf" [] a = "-inf" -> "+inf"
      [] a = "+" -> "-" [] a = "-" -> "+" [] OTHER -> a
XMul(a, b) ==
    LET inf == {"+inf", "-inf"}
        neg == {"-inf", "-"}
    IN  IF a = "nan" \/ b = "nan" THEN "nan"
        ELSE IF (a \in inf /\ b = "0") \/ (a = "0" /\ b \in inf) THEN "nan"
        ELSE IF a = "0" \/ b = "0" THEN "0"
        ELSE IF a \in inf \/ b \in inf
        THEN (IF (a \in neg) = (b \in neg) THEN "+inf" ELSE "-inf")
        ELSE (IF (a \in neg) = (b \in neg) THEN "+" ELSE "-")
\* a + b where a is an infinity or a NaN.
XAdd(a, b) ==
    IF a = "nan" \/ b = "nan" THEN "nan"
    ELSE IF b \in {"+inf", "-inf"} /\ b # a THEN "nan"
    ELSE a

\* round(x) for x = base + num/den, den > 0: to the nearest integer, a tie
\* to the even one.
RoundHalfEven(base, num, den) ==
    LET n == base + (num \div den)
        r == num % den
    IN  IF 2 * r > den \/ (2 * r = den /\ n % 2 = 1) THEN n + 1 ELSE n

\* Hues are counted in 1/HueScale degree and percentages in whole percents;
\* what an argument has beyond that is dropped.
HueScale == 10

\* hsl_to_rgb for finite arguments and a hue h already reduced modulo 360: h
\* in 1/HueScale degree, sp and lp in percent.  With K/100 = 1 - |2l - 1|,
\* T/(60 HueScale) = 1 - |(h/60) % 2 - 1|
\* and F the sector's share of c in a channel (c, x or 0), the channel is
\*   round(255 (lp/100 + (K sp/10000) (F/(60 HueScale) - 1/2)))
\* clamped to 0..255.
HslSector(h, sp, lp) ==
    LET sixty == 60 * HueScale
        K == 100 - Abs(2 * lp - 100)
        T == sixty - Abs((h % (2 * sixty)) - sixty)
        F == IF h < sixty THEN <<sixty, T, 0>>
             ELSE IF h < 2 * sixty THEN <<T, sixty, 0>>
             ELSE IF h < 3 * sixty THEN <<0, sixty, T>>
             ELSE IF h < 4 * sixty THEN <<0, T, sixty>>
             ELSE IF h < 5 * sixty THEN <<T, 0, sixty>>
             ELSE <<sixty, 0, T>>
        den == 100 * 100 * sixty
        chan(i) ==
            LET inner == 100 * sixty * lp + K * sp * (F[i] - (sixty \div 2))
            IN  Clamp255(RoundHalfEven(255 * (inner \div den), 255 * (inner % den), den))
    IN  Ret(<<chan(1), chan(2), chan(3)>>)

\* Faulty variant of HslFinite: the hue is not reduced modulo 360.
MutHslFiniteNoModulo(hd, sp, lp) == HslSector(hd, sp, lp)

\* h = h % 360, then the sectors.
HslFinite(hd, sp, lp) == HslSector(hd % (360 * HueScale), sp, lp)

\* hsl_to_rgb when s or l is not finite: every channel is then an infinity or
\* a NaN, and round() of the first one (red) raises.
HslNonFinite(h, s, l) ==
    LET k == IF l.kind = "fin"
             THEN SignClass(100 * FloatScale - Abs(2 * l.milli - 100 * FloatScale))
             ELSE IF l.kind = "inf" THEN "-inf" ELSE "nan"
        c == XMul(k, ClassOf(s))
        hd == (h.milli \div (FloatScale \div HueScale)) % (360 * HueScale)
        t == IF h.kind # "fin" THEN "nan"
             ELSE SignClass(60 * HueScale - Abs((hd % (120 * HueScale)) - 60 * HueScale))
        x == XMul(c, t)
        half == XNeg(c)
        m == IF l.kind = "fin" THEN half ELSE XAdd(ClassOf(l), half)
        sector == IF h.kind # "fin" THEN 5 ELSE hd \div (60 * HueScale)
        red == IF sector \in {0, 5} THEN XAdd(m, c)
               ELSE IF sector \in {1, 4} THEN XAdd(m, x)
               ELSE m
    IN  IF red = "nan" THEN Raise("ValueError") ELSE Raise("OverflowError")

\* HSL (h in degrees, s and l in 0..1) to RGB.  With a hue that is not finite
\* h % 360 is a NaN, the last sector is taken and round() raises ValueError
\* on its blue channel.
hsl_to_rgb(h, s, l) ==
    IF s.kind # "fin" \/ l.kind # "fin" THEN HslNonFinite(h, s, l)
    ELSE IF h.kind # "fin" THEN Raise("ValueError")
    ELSE HslFinite(h.milli \div (FloatScale \div HueScale),
                   TruncDiv(s.milli, FloatScale), TruncDiv(l.milli, FloatScale))

\* 180/pi, in 1/FloatScale.
RadToDeg == 57296

\* The hue in degrees: the number left when the unit names are deleted,
\* scaled by the first unit the string contains.
HueScaled(h_str, m) ==
    IF contains(h_str, "turn") THEN m * 360
    ELSE IF contains(h_str, "rad") THEN TruncDiv(m * RadToDeg, FloatScale)
    ELSE IF contains(h_str, "grad") THEN TruncDiv(m * 9, 10)
    ELSE m
HueOfFloat(h_str, f) ==
    IF IsRaise(f) \/ f.val.kind # "fin" THEN f
    ELSE Ret(Fin(HueScaled(h_str, f.val.milli)))
HueOf(h_str) ==
    HueOfFloat(h_str, ParseFloat(replace(replace(replace(replace(h_str, "deg", ""),
                                         "turn", ""), "rad", ""), "grad", "")))

\* The three numbers of hsl() are converted in order, then hsl_to_rgb is
\* called; a ValueError is caught (None), an OverflowError leaves the
\* function.
HslCaught(rgb) ==
    IF IsRaise(rgb) /\ rgb.exc = "ValueError" THEN Ret(None) ELSE rgb
HslOfFloats(h, s_val, l_val) ==
    IF IsRaise(h) \/ IsRaise(s_val) \/ IsRaise(l_val) THEN Ret(None)
    ELSE HslCaught(hsl_to_rgb(h.val, s_val.val, l_val.val))
HslOfParts(parts) ==
    IF Len(parts) < 3 THEN Ret(None)
    ELSE HslOfFloats(HueOf(parts[1]),
                     ParseFloat(replace(parts[2], "%", "")),
                     ParseFloat(replace(parts[3], "%", "")))
HslOfMatch(m) ==
    IF m = <<>> THEN Ret(None) ELSE HslOfParts(FuncParts(m[1]))

\* hsl(H, S%, L%) or hsla(H, S%, L%, A) to (R, G, B).
parse_hsl(str) == HslOfMatch(FuncMatch(strip(str), "hsl"))

\* Faulty variant of ColorOfLowered: a value that begins with a color name
\* is given that color.
MutColorOfLoweredPrefix(val) ==
    IF val \in NonColorValues THEN Ret(None)
    ELSE IF startswith(val, "#") THEN parse_hex(val)
    ELSE IF startswith(val, "rgb") THEN parse_rgb(val)
    ELSE IF startswith(val, "hsl") THEN parse_hsl(val)
    ELSE IF \E k \in DOMAIN NAMED_COLORS : startswith(val, k)
    THEN Ret(NAMED_COLORS[CHOOSE k \in DOMAIN NAMED_COLORS : startswith(val, k)])
    ELSE Ret(None)

\* Any CSS color value to an (R, G, B) tuple, None for what is not a color.
\* MutParseColorCased is a faulty variant of parse_color: the value is not
\* lower-cased.
ColorOfLowered(val) ==
    IF val \in NonColorValues THEN Ret(None)
    ELSE IF startswith(val, "#") THEN parse_hex(val)
    ELSE IF startswith(val, "rgb") THEN parse_rgb(val)
    ELSE IF startswith(val, "hsl") THEN parse_hsl(val)
    ELSE IF val \in DOMAIN NAMED_COLORS THEN Ret(NAMED_COLORS[val])
    ELSE Ret(None)
MutParseColorCased(v) ==
    IF v = "" THEN Ret(None) ELSE ColorOfLowered(strip(v))
parse_color(v) ==
    IF v = "" THEN Ret(None) ELSE ColorOfLowered(lower(strip(v)))
-----------------------------------------------------------------------------
(* WCAG contrast calculation                                               *)

\* 1.0 and 0.05 as luminances.
LumScale == 100000000
LumOffset == 5000000
\* The luminance weights 0.2126, 0.7152, 0.0722 are counted in 1/WeightScale.
WeightScale == 10000

\* WCAG AA thresholds, in tenths.
CONTRAST_NORMAL == 45
CONTRAST_LARGE == 30

\* linearize(c) for c = 0..255, in 1/LumScale, rounded to nearest:
\* c/255/12.92 when c/255 <= 0.04045, else ((c/255 + 0.055)/1.055)^2.4.
LinTable ==
    <<
       0, 30353, 60705, 91058, 121411, 151763, 182116, 212469,
       242822, 273174, 303527, 334654, 367651, 402472, 439144, 477695,
       518152, 560539, 604883, 651209, 699541, 749903, 802319, 856813,
       913406, 972122, 1032982, 1096009, 1161225, 1228649, 1298303, 1370208,
       1444384, 1520851, 1599629, 1680738, 1764195, 1850022, 1938236, 2028856,
       2121901, 2217388, 2315337, 2415763, 2518686, 2624122, 2732089, 2842604,
       2955683, 3071344, 3189603, 3310477, 3433981, 3560131, 3688945, 3820437,
       3954624, 4091520, 4231141, 4373503, 4518620, 4666509, 4817182, 4970657,
       5126946, 5286065, 5448028, 5612849, 5780543, 5951124, 6124605, 6301002,
       6480327, 6662594, 6847817, 7036010, 7227185, 7421357, 7618538, 7818742,
       8021982, 8228271, 8437621, 8650046, 8865559, 9084171, 9305896, 9530747,
       9758735, 9989873, 10224173, 10461648, 10702310, 10946171, 11193243, 11443537,
       11697067, 11953843, 12213877, 12477182, 12743768, 13013648, 13286832, 13563333,
       13843162, 14126329, 14412847, 14702727, 14995979, 15292615, 15592646, 15896084,
       16202938, 16513219, 16826940, 17144110, 17464740, 17788842, 18116424, 18447499,
       18782077, 19120168, 19461783, 19806932, 20155625, 20507874, 20863687, 21223076,
       21586050, 21952620, 22322796, 22696587, 23074005, 23455058, 23839757, 24228112,
       24620133, 25015828, 25415209, 25818285, 26225066, 26635560, 27049779, 27467731,
       27889426, 28314874, 28744084, 29177065, 29613827, 30054379, 30498731, 30946892,
       31398871, 31854678, 32314321, 32777810, 33245154, 33716362, 34191442, 34670406,
       35153260, 35640014, 36130678, 36625260, 37123768, 37626212, 38132601, 38642943,
       39157248, 39675523, 40197778, 40724021, 41254261, 41788507, 42326767, 42869050,
       43415364, 43965717, 44520119, 45078578, 45641102, 46207700, 46778380, 47353150,
       47932018, 48514994, 49102085, 49693300, 50288646, 50888132, 51491767, 52099557,
       52711513, 53327640, 53947949, 54572446, 55201140, 55834039, 56471151, 57112483,
       57758044, 58407842, 59061884, 59720179, 60382734, 61049557, 61720656, 62396039,
       63075714, 63759687, 64447968, 65140564, 65837482, 66538730, 67244316, 67954247,
       68668531, 69387176, 70110189, 70837578, 71569350, 72305513, 73046074, 73791041,
       74540421, 75294222, 76052450, 76815115, 77582222, 78353779, 79129794, 79910274,
       80695226, 81484657, 82278575, 83076988, 83879901, 84687323, 85499261, 86315721,
       87136712, 87962240, 88792312, 89626935, 90466117, 91309865, 92158186, 93011086,
       93868573, 94730654, 95597335, 96468625, 97344529, 98225055, 99110210, 100000000
    >>

\* Faulty variant of linearize: the channel is scaled to 0..1 and the sRGB
\* transfer curve is left out.
MutLinearizeLinear(c) == c * (LumScale \div 255)

linearize(c) == LinTable[c + 1]

\* 0.2126*R + 0.7152*G + 0.0722*B.  The products are formed on the high and
\* the low four digits of each channel separately, so that every intermediate
\* value stays below 2^31.
relative_luminance(rgb) ==
    LET r == linearize(rgb[1])
        g == linearize(rgb[2])
        b == linearize(rgb[3])
        hi == 2126 * (r \div WeightScale) + 7152 * (g \div WeightScale)
                + 722 * (b \div WeightScale)
        lo == 2126 * (r % WeightScale) + 7152 * (g % WeightScale)
                + 722 * (b % WeightScale)
    IN  hi + (lo \div WeightScale)

\* Faulty variant of contrast_ratio: the luminances are not ordered.
MutContrastUnordered(a, b) ==
    [num |-> relative_luminance(a) + LumOffset,
     den |-> relative_luminance(b) + LumOffset]

\* Faulty variant of contrast_ratio: the offset is 0.005 instead of 0.05.
MutContrastOffset(a, b) ==
    [num |-> Max(relative_luminance(a), relative_luminance(b)) + (LumOffset \div 10),
     den |-> Min(relative_luminance(a), relative_luminance(b)) + (LumOffset \div 10)]

\* (lighter + 0.05) / (darker + 0.05), as the fraction num/den.
contrast_ratio(a, b) ==
    LET l1 == relative_luminance(a)
        l2 == relative_luminance(b)
        lighter == Max(l1, l2)
        darker == Min(l1, l2)
    IN  [num |-> lighter + LumOffset, den |-> darker + LumOffset]

\* ratio >= t/10 and ratio <= t/10, for a fraction and a number of tenths.
RatioGE(f, t) == (10 * f.num) \div f.den >= t
RatioLE(f, t) == (10 * f.num - 1) \div t < f.den

\* round(ratio, 2) in hundredths: long division to two decimals, the third
\* deciding the rounding.
Round2(f) ==
    LET q0 == f.num \div f.den
        r0 == f.num % f.den
        d1 == (10 * r0) \div f.den
        r1 == (10 * r0) % f.den
        d2 == (10 * r1) \div f.den
        r2 == (10 * r1) % f.den
    IN  100 * q0 + 10 * d1 + d2 + (IF 2 * r2 >= f.den THEN 1 ELSE 0)

-----------------------------------------------------------------------------
(* CSS extraction from HTML                                                *)

\* The document is the sequence of calls HTMLParser.feed makes on the
\* extractor: [kind |-> "starttag", tag, attrs], [kind |-> "endtag", tag],
\* [kind |-> "data", data], and [kind |-> "error"] where feed raises.  attrs
\* is the list of <<name, value>> pairs, "" being the value of an attribute
\* written without one.

\* A dict with no key, and d with d[k] = v.
EmptyDict == [k \in {} |-> ""]
SetItem(d, k, v) == (k :> v) @@ d
\* d.get(k) is truthy.
Truthy(d, k) == k \in DOMAIN d /\ d[k] # ""

\* dict(attrs): the last value of each name.
AttrsDict(attrs) ==
    [n \in {attrs[i][1] : i \in 1..Len(attrs)} |->
        attrs[SetMax({i \in 1..Len(attrs) : attrs[i][1] = n})][2]]

\* StyleExtractor.__init__
NewExtractor ==
    [in_style |-> FALSE, style_blocks |-> <<>>, inline_styles |-> <<>>,
     current_style |-> ""]

\* Faulty variant of handle_starttag: an empty style attribute is collected
\* too.
MutHandleStarttagEmpty(self, tag, attrs) ==
    LET opened == IF tag = "style"
                  THEN [self EXCEPT !.in_style = TRUE, !.current_style = ""]
                  ELSE self
    IN  IF "style" \in DOMAIN AttrsDict(attrs)
        THEN [opened EXCEPT !.inline_styles = Append(@, AttrsDict(attrs)["style"])]
        ELSE opened

handle_starttag(self, tag, attrs) ==
    LET opened == IF tag = "style"
                  THEN [self EXCEPT !.in_style = TRUE, !.current_style = ""]
                  ELSE self
    IN  IF Truthy(AttrsDict(attrs), "style")
        THEN [opened EXCEPT !.inline_styles = Append(@, AttrsDict(attrs)["style"])]
        ELSE opened

\* Faulty variant of handle_endtag: </style> gives a block whether or not a
\* <style> is open.
MutHandleEndtagAlways(self, tag) ==
    IF tag = "style"
    THEN [self EXCEPT !.in_style = FALSE,
                      !.style_blocks = Append(@, self.current_style),
                      !.current_style = ""]
    ELSE self

handle_endtag(self, tag) ==
    IF tag = "style" /\ self.in_style
    THEN [self EXCEPT !.in_style = FALSE,
                      !.style_blocks = Append(@, self.current_style),
                      !.current_style = ""]
    ELSE self

handle_data(self, data) ==
    IF self.in_style
    THEN [self EXCEPT !.current_style = @ \o data]
    ELSE self

\* extractor.feed(html) inside try/except: the handlers run in order up to
\* the place where feed raises, and what they collected is kept.
RECURSIVE Feed(_, _)
Feed(self, events) ==
    IF events = <<>> \/ Head(events).kind = "error" THEN self
    ELSE LET e == Head(events)
             next == CASE e.kind = "starttag" -> handle_starttag(self, e.tag, e.attrs)
                       [] e.kind = "endtag" -> handle_endtag(self, e.tag)
                       [] e.kind = "data" -> handle_data(self, e.data)
         IN  Feed(next, Tail(events))

\* The characters the regex class \w holds (\b is a boundary of them).
WordChars ==
    {Ch(UpperCase, i) : i \in 1..26} \cup {Ch(LowerCase, i) : i \in 1..26}
        \cup {Ch(Digits, i) : i \in 1..10} \cup {"_"}

\* The first index >= i where sub starts in s, 0 when there is none.
Find(s, sub, i) ==
    LET hit == {j \in i..(Len(s) - Len(sub) + 1) : SubSeq(s, j, j + Len(sub) - 1) = sub}
    IN  IF hit = {} THEN 0 ELSE SetMin(hit)

\* re.search(r"(#[0-9a-fA-F]{3,8})\b", value): the leftmost "#" followed by
\* a run of 3 to 8 hexadecimal digits that ends at a word boundary.
HexSearch(v) ==
    LET run(j) == FindNotIn(v, j + 1, DOMAIN DigitOf) - (j + 1)
        hit == {j \in 1..Len(v) :
                   /\ Ch(v, j) = "#"
                   /\ run(j) >= 3 /\ run(j) <= 8
                   /\ Ch(v, j + 1 + run(j)) \notin WordChars}
    IN  IF hit = {} THEN "" ELSE SubSeq(v, SetMin(hit), SetMin(hit) + run(SetMin(hit)))

\* re.search(r"((?:rgb|hsl)a?\s*\([^)]+\))", value, re.IGNORECASE): the
\* leftmost function call, as written.
FuncSearch(v) ==
    LET low == lower(v)
        end(j) == LET i == IF Ch(low, j + 3) = "a" THEN j + 4 ELSE j + 3
                      open == FindNotIn(low, i, Whitespace)
                      close == FindIn(low, open + 1, {")"})
                  IN  IF Ch(low, open) = "(" /\ close <= Len(low) /\ close > open + 1
                      THEN close ELSE 0
        hit == {j \in 1..Len(v) :
                   /\ (startswith(SubSeq(low, j, Len(low)), "rgb")
                         \/ startswith(SubSeq(low, j, Len(low)), "hsl"))
                   /\ end(j) > 0}
    IN  IF hit = {} THEN "" ELSE SubSeq(v, SetMin(hit), end(SetMin(hit)))

\* Color of a CSS background shorthand: Ret(string), Ret("") for None, or the
\* exception parse_color raises on the whole value.
FirstNamedToken(tokens, named) ==
    IF named # {} THEN Ret(lower(tokens[SetMin(named)])) ELSE Ret("")
NamedColorToken(tokens) ==
    FirstNamedToken(tokens,
        {i \in 1..Len(tokens) : lower(tokens[i]) \in DOMAIN NAMED_COLORS})
ColorTokenOf(v, hex_match, func_match) ==
    IF hex_match # "" THEN Ret(hex_match)
    ELSE IF func_match # "" THEN Ret(func_match)
    ELSE NamedColorToken(Fields(v, 1, Whitespace))
ShorthandColor(v, whole) ==
    IF IsRaise(whole) THEN whole
    ELSE IF whole.val # None THEN Ret(v)
    ELSE ColorTokenOf(v, HexSearch(v), FuncSearch(v))
extract_color_from_background_shorthand(v) == ShorthandColor(v, parse_color(v))

\* Faulty variant of StripImportant: only the lower-case spelling is removed.
MutStripImportantCased(v) ==
    IF endswith(v, "!important")
    THEN LET head == SubSeq(v, 1, Len(v) - 10)
             keep == {i \in 1..Len(head) : Ch(head, i) \notin Whitespace}
         IN  IF keep = {} THEN "" ELSE SubSeq(head, 1, SetMax(keep))
    ELSE v

\* re.sub(r"\s*!important\s*$", "", value, flags=re.IGNORECASE) on a
\* stripped value.
StripImportant(v) ==
    IF endswith(lower(v), "!important")
    THEN LET head == SubSeq(v, 1, Len(v) - 10)
             keep == {i \in 1..Len(head) : Ch(head, i) \notin Whitespace}
         IN  IF keep = {} THEN "" ELSE SubSeq(head, 1, SetMax(keep))
    ELSE v

\* re.split(r";\s*", css_body): the pieces between the semicolons, the
\* whitespace after a semicolon going with it.
RECURSIVE SplitProps(_)
SplitProps(s) ==
    LET semi == Find(s, ";", 1)
    IN  IF semi = 0 THEN <<s>>
        ELSE <<SubSeq(s, 1, semi - 1)>>
                \o SplitProps(SubSeq(s, FindNotIn(s, semi + 1, Whitespace), Len(s)))

\* One "name: value" piece applied to the dict built so far (the pieces hold
\* no ";", so value.rstrip(";") removes nothing).
ApplyBackground(res, color) ==
    IF IsRaise(color) THEN color
    ELSE IF color.val # "" THEN Ret(SetItem(res.val, "background", color.val))
    ELSE res
ApplyNamed(res, name, val) ==
    IF name = "color" THEN Ret(SetItem(res.val, "color", val))
    ELSE IF name = "background-color" THEN Ret(SetItem(res.val, "background", val))
    ELSE IF name = "background"
    THEN ApplyBackground(res, extract_color_from_background_shorthand(val))
    ELSE res
ApplyPartition(res, prop, colon) ==
    IF prop = "" \/ colon = 0 THEN res
    ELSE ApplyNamed(res, lower(strip(SubSeq(prop, 1, colon - 1))),
                    StripImportant(strip(SubSeq(prop, colon + 1, Len(prop)))))
ApplyStripped(res, prop) == ApplyPartition(res, prop, Find(prop, ":", 1))
ApplyProp(res, piece) ==
    IF IsRaise(res) THEN res ELSE ApplyStripped(res, strip(piece))

RECURSIVE ApplyProps(_, _)
ApplyProps(res, props) ==
    IF props = <<>> THEN res
    ELSE ApplyProps(ApplyProp(res, Head(props)), Tail(props))

\* The color-related properties of a CSS declaration body.
parse_declarations(css_body) == ApplyProps(Ret(EmptyDict), SplitProps(css_body))

\* extract_inline_colors
extract_inline_colors(style_str) == parse_declarations(style_str)

\* Faulty variant of RemoveComments: the comments are left in the text.
MutRemoveCommentsNone(s) == s

\* re.sub(r"/\*.*?\*/", "", css_text, flags=re.DOTALL)
RECURSIVE RemoveComments(_)
RemoveComments(s) ==
    LET open == Find(s, "/*", 1)
        close == IF open = 0 THEN 0 ELSE Find(s, "*/", open + 2)
    IN  IF close = 0 THEN s
        ELSE SubSeq(s, 1, open - 1) \o RemoveComments(SubSeq(s, close + 2, Len(s)))

\* rule_pattern.finditer(css_text) from index pos on, as <<group 1, group 2>>
\* pairs: a run of one or more characters without braces, "{", a run without
\* braces, "}".
RECURSIVE Rules(_, _)
Rules(s, pos) ==
    LET braces == {"{", "}"}
        b1 == FindIn(s, pos, braces)
        b2 == FindIn(s, b1 + 1, braces)
    IN  IF b1 > Len(s) THEN <<>>
        ELSE IF Ch(s, b1) = "{" /\ b1 > pos /\ Ch(s, b2) = "}"
        THEN <<<<SubSeq(s, pos, b1 - 1), SubSeq(s, b1 + 1, b2 - 1)>>>> \o Rules(s, b2 + 1)
        ELSE Rules(s, b1 + 1)

\* The declarations of the rules, in order, or the first exception.
RuleDeclsCons(selector, decl, rest) ==
    IF IsRaise(decl) THEN decl
    ELSE IF IsRaise(rest) THEN rest
    ELSE IF Truthy(decl.val, "color") \/ Truthy(decl.val, "background")
    THEN Ret(<<SetItem(decl.val, "selector", selector)>> \o rest.val)
    ELSE rest
RECURSIVE RuleDecls(_)
RuleDecls(rules) ==
    IF rules = <<>> THEN Ret(<<>>)
    ELSE RuleDeclsCons(strip(Head(rules)[1]),
                       parse_declarations(strip(Head(rules)[2])),
                       RuleDecls(Tail(rules)))

\* Color and background declarations of a CSS text: a list of dicts
\* {"selector": ..., "color": ..., "background": ...}.
extract_colors_from_css(css_text) == RuleDecls(Rules(RemoveComments(css_text), 1))

-----------------------------------------------------------------------------
(* Analysis engine                                                         *)

\* An optional number: None, or the 1-tuple of the number.
Some(x) == <<x>>

\* Faulty variant of Pairing: the pass flags are taken from the rounded ratio.
MutPairingRounded(fg_str, bg_str, fg_rgb, bg_rgb, explicit, decl) ==
    LET r == contrast_ratio(fg_rgb, bg_rgb)
    IN  [foreground |-> fg_str,
         background |-> bg_str,
         fg_rgb |-> fg_rgb,
         bg_rgb |-> bg_rgb,
         ratio |-> Round2(r),
         pass_normal |-> Round2(r) >= 10 * CONTRAST_NORMAL,
         pass_large |-> Round2(r) >= 10 * CONTRAST_LARGE,
         explicit |-> explicit,
         selector |-> IF "selector" \in DOMAIN decl THEN decl.selector ELSE ""]

\* One entry of the pairings list.
Pairing(fg_str, bg_str, fg_rgb, bg_rgb, explicit, decl) ==
    LET r == contrast_ratio(fg_rgb, bg_rgb)
    IN  [foreground |-> fg_str,
         background |-> bg_str,
         fg_rgb |-> fg_rgb,
         bg_rgb |-> bg_rgb,
         ratio |-> Round2(r),
         pass_normal |-> RatioGE(r, CONTRAST_NORMAL),
         pass_large |-> RatioGE(r, CONTRAST_LARGE),
         explicit |-> explicit,
         selector |-> IF "selector" \in DOMAIN decl THEN decl.selector ELSE ""]

\* Faulty variant of Candidate: black (0, 0, 0) counts as unresolved.
MutCandidateBlack(decl, fg_rgb, bg_rgb) ==
    LET fg_ok == fg_rgb # None /\ fg_rgb # <<0, 0, 0>>
        bg_ok == bg_rgb # None /\ bg_rgb # <<0, 0, 0>>
    IN  IF fg_ok /\ bg_ok
        THEN <<Pairing(decl.color, decl.background, fg_rgb, bg_rgb, TRUE, decl)>>
        ELSE IF fg_ok
        THEN <<Pairing(decl.color, "#ffffff (assumed)", fg_rgb, <<255, 255, 255>>, FALSE, decl)>>
        ELSE IF bg_ok
        THEN <<Pairing("#000000 (assumed)", decl.background, <<0, 0, 0>>, bg_rgb, FALSE, decl)>>
        ELSE <<>>

\* The pairing key and entry a declaration gives, <<>> when neither side
\* resolves.
Candidate(decl, fg_rgb, bg_rgb) ==
    IF fg_rgb # None /\ bg_rgb # None
    THEN <<Pairing(decl.color, decl.background, fg_rgb, bg_rgb, TRUE, decl)>>
    ELSE IF fg_rgb # None
    THEN <<Pairing(decl.color, "#ffffff (assumed)", fg_rgb, <<255, 255, 255>>, FALSE, decl)>>
    ELSE IF bg_rgb # None
    THEN <<Pairing("#000000 (assumed)", decl.background, <<0, 0, 0>>, bg_rgb, FALSE, decl)>>
    ELSE <<>>

\* The loop over all_decls: the pairings list so far and the set of keys seen.
RECURSIVE BuildPairings(_, _, _)

\* Faulty variant of AddCandidate: the keys seen are not recorded.
MutAddCandidateNoSeen(decls, pairings, seen, cand) ==
    IF cand = <<>>
    THEN BuildPairings(Tail(decls), pairings, seen)
    ELSE BuildPairings(Tail(decls), Append(pairings, cand[1]), seen)

\* Faulty variant of AddCandidate: a later declaration of a key already seen
\* replaces the entry kept for that key.
MutAddCandidateLast(decls, pairings, seen, cand) ==
    IF cand = <<>>
    THEN BuildPairings(Tail(decls), pairings, seen)
    ELSE IF <<cand[1].fg_rgb, cand[1].bg_rgb>> \in seen
    THEN BuildPairings(Tail(decls),
                       [i \in 1..Len(pairings) |->
                           IF pairings[i].fg_rgb = cand[1].fg_rgb
                                /\ pairings[i].bg_rgb = cand[1].bg_rgb
                           THEN cand[1] ELSE pairings[i]],
                       seen)
    ELSE BuildPairings(Tail(decls), Append(pairings, cand[1]),
                       seen \cup {<<cand[1].fg_rgb, cand[1].bg_rgb>>})

\* The candidate of the first declaration is appended unless there is none
\* or its key was seen, and the loop goes on with the next declaration.
AddCandidate(decls, pairings, seen, cand) ==
    IF cand = <<>> \/ <<cand[1].fg_rgb, cand[1].bg_rgb>> \in seen
    THEN BuildPairings(Tail(decls), pairings, seen)
    ELSE BuildPairings(Tail(decls), Append(pairings, cand[1]),
                       seen \cup {<<cand[1].fg_rgb, cand[1].bg_rgb>>})

\* parse_color(fg_str) if fg_str else None, and the same for bg_str.
ParseSide(decl, side) ==
    IF Truthy(decl, side) THEN parse_color(decl[side]) ELSE Ret(None)

PairDecl(decls, pairings, seen, fg, bg) ==
    IF IsRaise(fg) THEN fg
    ELSE IF IsRaise(bg) THEN bg
    ELSE AddCandidate(decls, pairings, seen, Candidate(Head(decls), fg.val, bg.val))

BuildPairings(decls, pairings, seen) ==
    IF decls = <<>> THEN Ret(pairings)
    ELSE PairDecl(decls, pairings, seen,
                  ParseSide(Head(decls), "color"), ParseSide(Head(decls), "background"))

\* The declarations of the <style> blocks, in order, or the first exception.
BlockDeclsCons(first, rest) ==
    IF IsRaise(first) THEN first
    ELSE IF IsRaise(rest) THEN rest
    ELSE Ret(first.val \o rest.val)
RECURSIVE BlockDecls(_)
BlockDecls(blocks) ==
    IF blocks = <<>> THEN Ret(<<>>)
    ELSE BlockDeclsCons(extract_colors_from_css(Head(blocks)), BlockDecls(Tail(blocks)))

\* The declarations of the inline styles, in order, or the first exception.
InlineDeclsCons(decl, rest) ==
    IF IsRaise(decl) THEN decl
    ELSE IF IsRaise(rest) THEN rest
    ELSE IF Truthy(decl.val, "color") \/ Truthy(decl.val, "background")
    THEN Ret(<<SetItem(decl.val, "selector", "[inline]")>> \o rest.val)
    ELSE rest
RECURSIVE InlineDecls(_)
InlineDecls(styles) ==
    IF styles = <<>> THEN Ret(<<>>)
    ELSE InlineDeclsCons(extract_inline_colors(Head(styles)), InlineDecls(Tail(styles)))

RECURSIVE SeqSum(_)
SeqSum(s) == IF s = <<>> THEN 0 ELSE Head(s) + SeqSum(Tail(s))

\* sorted(xs)
RECURSIVE Sorted(_)
Sorted(xs) ==
    IF xs = <<>> THEN <<>>
    ELSE LET i == CHOOSE i \in 1..Len(xs) : \A j \in 1..Len(xs) : xs[i] <= xs[j]
         IN  <<xs[i]>> \o Sorted(SubSeq(xs, 1, i - 1) \o SubSeq(xs, i + 1, Len(xs)))

\* Faulty variant of Count: every entry is counted.
MutCountAll(pairings, flag) == Len(pairings)

\* The number of entries of a list that satisfy a flag.
Count(pairings, flag) == Cardinality({i \in 1..Len(pairings) : pairings[i][flag]})

\* round(sum(ratios) / len(ratios), 2), in hundredths.  The quotient is a
\* binary float: where the exact mean lies halfway between two hundredths the
\* float lies on either side of the tie, and tie_up is the side it lies on.
MeanRatio(ratios, tie_up) ==
    LET whole == SeqSum(ratios) \div Len(ratios)
        rest == SeqSum(ratios) % Len(ratios)
    IN  IF 2 * rest > Len(ratios) \/ (2 * rest = Len(ratios) /\ tie_up)
        THEN whole + 1 ELSE whole

\* Faulty variant of MedianRatio: the lower of the two middle elements of an
\* even-sized list.
MutMedianLower(ratios) == ratios[(Len(ratios) + 1) \div 2]

\* round(ratios[len(ratios) // 2], 2) for the sorted list of the rounded
\* ratios: Python indexes from 0, so this is position n // 2 + 1.
MedianRatio(ratios) == ratios[(Len(ratios) \div 2) + 1]

\* The summary dict.  Ratios are in hundredths, rates in tenths of a percent.
Summary(pairings, tie_up) ==
    LET total == Len(pairings)
        pass_n == Count(pairings, "pass_normal")
        pass_l == Count(pairings, "pass_large")
        ratios == Sorted([i \in 1..total |-> pairings[i].ratio])
    IN  IF total = 0
        THEN [pairings |-> <<>>, total_pairings |-> 0,
              pass_normal |-> 0, fail_normal |-> 0,
              pass_large |-> 0, fail_large |-> 0,
              pass_rate_normal |-> None, pass_rate_large |-> None,
              worst_ratio |-> None, best_ratio |-> None,
              median_ratio |-> None, mean_ratio |-> None]
        ELSE [pairings |-> pairings, total_pairings |-> total,
              pass_normal |-> pass_n, fail_normal |-> total - pass_n,
              pass_large |-> pass_l, fail_large |-> total - pass_l,
              pass_rate_normal |-> Some(RoundHalfEven(0, 1000 * pass_n, total)),
              pass_rate_large |-> Some(RoundHalfEven(0, 1000 * pass_l, total)),
              worst_ratio |-> Some(ratios[1]),
              best_ratio |-> Some(ratios[total]),
              median_ratio |-> Some(MedianRatio(ratios)),
              mean_ratio |-> Some(MeanRatio(ratios, tie_up))]

\* The declarations analyze_html collects: those of the style blocks, then
\* those of the inline styles.
AllDeclsOf(blocks, inline) ==
    IF IsRaise(blocks) THEN blocks
    ELSE IF IsRaise(inline) THEN inline
    ELSE Ret(blocks.val \o inline.val)
AllDecls(extractor) ==
    AllDeclsOf(BlockDecls(extractor.style_blocks), InlineDecls(extractor.inline_styles))

\* The summary of the pairings built, or the exception building them raised.
SummaryOf(pairings, tie_up) ==
    IF IsRaise(pairings) THEN pairings ELSE Ret(Summary(pairings.val, tie_up))
PairingsOf(all_decls, tie_up) ==
    IF IsRaise(all_decls) THEN all_decls
    ELSE SummaryOf(BuildPairings(all_decls.val, <<>>, {}), tie_up)

\* Analyze an HTML document for WCAG AA color contrast compliance.
analyze_html(html_content, tie_up) ==
    PairingsOf(AllDecls(Feed(NewExtractor, html_content)), tie_up)

-----------------------------------------------------------------------------
(* process_file, main (03_analyze_wcag.py) and the report stage            *)
(* (04_generate_report.py)                                                 *)

\* A file of HTML_DIR is [readable |-> BOOLEAN, html |-> its text as parser
\* events]; open() or read() of a file that is not readable raises OSError.
\* The message str(e) of an exception is held as the name of its class.
ErrorRecord(domain, e) == [domain |-> domain, status |-> "error", error |-> e]

\* d.get(k, default)
Get(d, k, default) == IF k \in DOMAIN d THEN d[k] ELSE default

\* Faulty variant of ProcessAnalyzed: an exception of the analysis gives an
\* empty analysis instead of an error record.
MutProcessAnalyzedEmpty(analysis, domain) ==
    IF IsRaise(analysis) THEN [domain |-> domain, status |-> "analyzed", total_pairings |-> 0]
    ELSE SetItem(SetItem(analysis.val, "domain", domain), "status", "analyzed")

\* Analyze a single HTML file.
ProcessAnalyzed(analysis, domain) ==
    IF IsRaise(analysis) THEN ErrorRecord(domain, analysis.exc)
    ELSE SetItem(SetItem(analysis.val, "domain", domain), "status", "analyzed")
process_file(file, domain, tie_up) ==
    IF ~file.readable THEN ErrorRecord(domain, "OSError")
    ELSE ProcessAnalyzed(analyze_html(file.html, tie_up), domain)

\* Faulty variant of FutureResult: the exception of a future gives no
\* domain.
MutFutureResultUntagged(future, domain) ==
    IF IsRaise(future) THEN ErrorRecord("", future.exc) ELSE future.val

\* What main appends to the results for a completed future: what
\* future.result() returns, or an error record when it raises.
FutureResult(future, domain) ==
    IF IsRaise(future) THEN ErrorRecord(domain, future.exc) ELSE future.val

\* failing.sort(key=lambda p: p["ratio"]): ascending and stable.
RECURSIVE InsertByRatio(_, _)
InsertByRatio(ps, p) ==
    IF ps = <<>> \/ ps[Len(ps)].ratio <= p.ratio THEN Append(ps, p)
    ELSE Append(InsertByRatio(SubSeq(ps, 1, Len(ps) - 1), p), ps[Len(ps)])
RECURSIVE SortByRatio(_)
SortByRatio(ps) ==
    IF ps = <<>> THEN <<>>
    ELSE InsertByRatio(SortByRatio(SubSeq(ps, 1, Len(ps) - 1)), ps[Len(ps)])

\* Faulty variant of WorstPairings: the first five failing pairings, in the
\* order of the document.
MutWorstPairingsUnsorted(failing) == SubSeq(failing, 1, Min(5, Len(failing)))

\* failing[:5] of the sorted failing pairings.
WorstPairings(failing) ==
    SubSeq(SortByRatio(failing), 1, Min(5, Len(failing)))
\* The entry of results_summary for the record r.
WithoutPairings(r) == [k \in DOMAIN r \ {"pairings"} |-> r[k]]
SummaryProjection(r) ==
    IF Get(r, "pairings", <<>>) # <<>>
    THEN SetItem(WithoutPairings(r), "worst_pairings",
                 WorstPairings(SelectSeq(r.pairings, LAMBDA p : ~p.pass_normal)))
    ELSE WithoutPairings(r)
RECURSIVE Map(_, _)
Map(F(_), s) == IF s = <<>> THEN <<>> ELSE <<F(Head(s))>> \o Map(F, Tail(s))

\* compute_statistics of the report stage: the records it takes as analysed
\* and as having color data, and the counts it reports of them (the pass
\* rate statistics it derives from with_colors are left out).
Analysed(records) == SelectSeq(records, LAMBDA r : Get(r, "status", "") = "analysed")
WithColors(analysed) == SelectSeq(analysed, LAMBDA r : Get(r, "total_pairings", 0) > 0)
StatisticsOf(records, analysed, with_colors) ==
    IF with_colors = <<>> THEN [error |-> "No domains with color data found"]
    ELSE [total_domains_in_list |-> Len(records),
          domains_analysed |-> Len(analysed),
          domains_with_color_data |-> Len(with_colors),
          domains_no_color_data |-> Len(analysed) - Len(with_colors),
          domains_failed |-> Len(records) - Len(analysed)]
compute_statistics(records) ==
    StatisticsOf(records, Analysed(records), WithColors(Analysed(records)))
\* export_csv: the domains of its rows (their order, by domain, and the
\* other columns are left out).
export_csv(records) ==
    {WithColors(Analysed(records))[i].domain :
        i \in 1..Len(WithColors(Analysed(records)))}

-----------------------------------------------------------------------------
(* _decode_chunked (02_fetch_warc.py)                                      *)

\* Bytes are held as the characters of a string (the model has ASCII bytes
\* only, which decode("ascii") gives back unchanged), with Python's indexes
\* from 0.  A slice index i of a sequence of length n: a negative index
\* counts from the end, and every index is clamped to 0..n.
SliceIndex(i, n) == IF i < 0 THEN Max(i + n, 0) ELSE Min(i, n)
\* s[a:b]
Slice(s, a, b) ==
    IF SliceIndex(a, Len(s)) >= SliceIndex(b, Len(s)) THEN ""
    ELSE SubSeq(s, SliceIndex(a, Len(s)) + 1, SliceIndex(b, Len(s)))
\* s.find(sub, start): the lowest index at or after start, -1 when there is
\* none.
FindFrom(s, sub, start) == Find(s, sub, SliceIndex(start, Len(s)) + 1) - 1

\* int(s, 16) for a string of any length: surrounding whitespace is ignored,
\* then come an optional sign, an optional "0x" or "0X", and hexadecimal
\* digits that single underscores may separate (one may follow the prefix).
\* Anything else raises ValueError.
Unsigned(t) == IF Ch(t, 1) \in {"+", "-"} THEN Tail(t) ELSE t
HasPrefix0x(u) == lower(SubSeq(u, 1, Min(2, Len(u)))) = "0x"
Grouped(u) ==
    IF HasPrefix0x(u)
    THEN (IF Ch(u, 3) = "_" THEN SubSeq(u, 4, Len(u)) ELSE SubSeq(u, 3, Len(u)))
    ELSE u
WellGrouped(g) ==
    /\ g # "" /\ Ch(g, 1) # "_" /\ Ch(g, Len(g)) # "_"
    /\ \A i \in 1..Len(g) : IsHexDigit(Ch(g, i)) \/ Ch(g, i) = "_"
    /\ \A i \in 1..(Len(g) - 1) : ~(Ch(g, i) = "_" /\ Ch(g, i + 1) = "_")
IntLiteral16(t) ==
    IF WellGrouped(Grouped(Unsigned(t)))
    THEN Ret((IF Ch(t, 1) = "-" THEN -1 ELSE 1) * HexValue(replace(Grouped(Unsigned(t)), "_", "")))
    ELSE Raise("ValueError")
int16(s) == IntLiteral16(strip(s))

\* One turn of the loop of _decode_chunked at read position pos with the
\* bytes decoded so far: [stop |-> TRUE] for break, or the position and the
\* decoded bytes the next turn begins with.
LineEnd(data, pos) == FindFrom(data, "\r\n", pos)
SizeStr(data, pos) == strip(Slice(data, pos, LineEnd(data, pos)))
\* size_str.split(";")[0]
BeforeSemicolon(s) == SubSeq(s, 1, FindIn(s, 1, {";"}) - 1)
ChunkSize(data, pos) == int16(BeforeSemicolon(SizeStr(data, pos)))
ChunkStart(data, pos) == LineEnd(data, pos) + 2
ChunkEnd(data, pos) == ChunkStart(data, pos) + ChunkSize(data, pos).val
Stops(data, pos) ==
    IF LineEnd(data, pos) = -1 THEN TRUE
    ELSE IF SizeStr(data, pos) = "" THEN FALSE
    ELSE IF IsRaise(ChunkSize(data, pos)) THEN TRUE
    ELSE ChunkSize(data, pos).val = 0
SkipsLine(data, pos) == LineEnd(data, pos) # -1 /\ SizeStr(data, pos) = ""
TakesChunk(data, pos) == ~Stops(data, pos) /\ ~SkipsLine(data, pos)
Chunk(data, pos) == Slice(data, ChunkStart(data, pos), ChunkEnd(data, pos))

\* The read position of the next turn.
NextPos(data, pos) ==
    IF SkipsLine(data, pos) THEN LineEnd(data, pos) + 2 ELSE ChunkEnd(data, pos) + 2
-----------------------------------------------------------------------------
(* The arguments of the calls                                              *)

\* contrast_ratio: each channel takes MaxLevel + 1 evenly spaced values and
\* the two greys of the AA boundary.
MaxLevel == 2
ChannelValues == {(255 * k) \div MaxLevel : k \in 0..MaxLevel} \cup {118, 119}
RGBs == {<<r, g, b>> : r \in ChannelValues, g \in ChannelValues, b \in ChannelValues}
WHITE == <<255, 255, 255>>
BLACK == <<0, 0, 0>>

\* parse_color: "#" and up to MaxHexLen characters of HexAlphabet, and one
\* value or more of every other syntax.
MaxHexLen == 4
HexAlphabet == {"0", "f", "g"}
RECURSIVE Words(_)
Words(n) ==
    IF n = 0 THEN {""}
    ELSE Words(n - 1) \cup {w \o c : w \in Words(n - 1), c \in HexAlphabet}
ColorValues ==
    {"#" \o w : w \in Words(MaxHexLen)}
    \cup {"", "#333333", "#FFFFFF", "#ffffff80", "#gggggg", " #fff ",
          "#12345", "#1234567", "#123456789", "#abcdef", "#ABCDEF12", "#abcdefgg",
          "white", "Black", "rebeccapurple", "cornflowerblue", "not-a-color",
          "whit", "whitee", "xblack", "dark blue", "red blue", "white;",
          "Dark Gray", "darkgrey", "grey", " RED\n",
          "transparent", "inherit", "currentColor", "initial", "unset",
          "none", "auto", "revert",
          " Transparent ", "INHERIT", "\tNone\n", "AUTO ", "Initial", "UNSET",
          "REVERT", " CurrentColor", "RebeccaPurple ",
          "rgb(255, 255, 255)", "rgb(0 0 0 / 50%)", "rgba(10%, 300, -5, 0.5)",
          "rgb(255 255 255)", "rgb(10% 300 -5 / 0.9)", "rgb(10%, 300, -5)",
          "rgb(1, 2, 3, 4, 5)", "RGB( 100% , 50% , 0% )", "rgb(1,2,3,x)",
          "rgb(1 2 / 3)",
          "rgb(1, 2)", "rgb(x, 2, 3)", "rgb(nan, 0, 0)", "rgb(inf, 0, 0)",
          "hsl(0, 100%, 50%)", "hsl(0.5turn, 100%, 50%)", "hsl(120deg 0% 50%)",
          "hsl(120, 50%)", "hsl(nan, 1%, 1%)", "hsl(120, inf%, 50%)",
          "hsl(120, 100%, 50%)", "hsl(240, 100%, 50%)", "hsl(-120, 100%, 50%)",
          "hsl(480, 100%, 50%)", "hsl(-30, 60%, 40%)", "hsl(330, 60%, 40%)",
          "hsl(690, 60%, 40%)", "hsl(77, 30%, 0%)", "hsl(77, 30%, 100%)",
          "hsl(200, 200%, 0%)", "hsl(200, 200%, 100%)",
          "hsl(0, 200%, 50%)", "hsla(200, 50%, 150%, 1)", "hsl(200, -50%, -20%)",
          "hsl(400grad, 100%, 50%)", "hsl(360, 100%, 50%)", "hsl(180, 100%, 50%)",
          "hsl(90deg, 100%, 50%)", "hsl(3.1416rad, 100%, 50%)", "hsl(100GRAD 50% 50%)"}

\* analyze_html: documents of up to MaxElements elements, each an element
\* with an inline style or a <style> element.
MaxElements == 3
InlineElement(style) ==
    <<[kind |-> "starttag", tag |-> "p", attrs |-> <<<<"style", style>>>>]>>
StyleElement(css) ==
    <<[kind |-> "starttag", tag |-> "style", attrs |-> <<>>],
      [kind |-> "data", data |-> css],
      [kind |-> "endtag", tag |-> "style"]>>
Elements ==
    {StyleElement("body { color: #333; background-color: #fff; } /* c */ .link { color: #c2c }"),
     StyleElement(".a{color:#C2C}\np{color:inherit}"),
     InlineElement("color:#333333;background:white"),
     InlineElement("color: #333"),
     InlineElement("background-color: rgb(255, 255, 255)"),
     InlineElement("color: black; background-color: #EEE !important"),
     InlineElement("color: inherit; background-color: transparent"),
     InlineElement("color:#ggg"),
     InlineElement("color: #777777; background: url(x.png) #fff"),
     InlineElement("color: #ccc; background-color: #ddd"),
     InlineElement("margin: 0")}
RECURSIVE Concat(_)
Concat(ss) == IF ss = <<>> THEN <<>> ELSE Head(ss) \o Concat(Tail(ss))
Documents ==
    {Concat(d) : d \in UNION {[1..n -> Elements] : n \in 0..MaxElements}}

\* feed: documents of up to MaxElements pieces of markup.  The text of a
\* <style> element reaches the handlers as data (the parser reads it as
\* CDATA up to "</style>").  A valueless attribute has the value None, which
\* line 306 treats as it treats the empty string; both are "" here.  The
\* event "error" is the place where feed raises.
Markup ==
    {StyleElement("p{color:#333}"), StyleElement(""), StyleElement(".a{}"),
     InlineElement("color: #333"), InlineElement("background: white"),
     InlineElement(""),
     <<[kind |-> "starttag", tag |-> "div", attrs |-> <<<<"class", "style">>>>],
       [kind |-> "data", data |-> "color: red"],
       [kind |-> "endtag", tag |-> "div"]>>,
     <<[kind |-> "starttag", tag |-> "a",
        attrs |-> <<<<"href", "#">>, <<"style", "color: #c2c">>>>],
       [kind |-> "endtag", tag |-> "a"]>>,
     <<[kind |-> "starttag", tag |-> "style", attrs |-> <<>>],
       [kind |-> "data", data |-> "p { color: red }"],
       [kind |-> "error"]>>,
     <<[kind |-> "endtag", tag |-> "style"]>>,
     <<[kind |-> "error"]>>}
FedDocuments ==
    {Concat(d) : d \in UNION {[1..n -> Markup] : n \in 0..MaxElements}}

\* The handlers of StyleExtractor called with any sequence of up to
\* MaxEvents events, whether or not HTMLParser would produce it.
MaxEvents == 5
Events ==
    {[kind |-> "starttag", tag |-> "style", attrs |-> <<>>],
     [kind |-> "starttag", tag |-> "p", attrs |-> <<<<"style", "color: red">>>>],
     [kind |-> "endtag", tag |-> "style"],
     [kind |-> "endtag", tag |-> "p"],
     [kind |-> "data", data |-> "a{}"],
     [kind |-> "data", data |-> "b"]}
EventSequences == UNION {[1..n -> Events] : n \in 0..MaxEvents}

\* _parse_declarations: bodies of up to MaxProps pieces joined by "; ".
MaxProps == 2
Props ==
    {"COLOR : #333 !IMPORTANT", "color:#ABC", "background-color: #FFF",
     "Background-Color:rgb(0, 0, 0)!important", "color: a:b !Important ",
     "background: url(http://x.png) no-repeat", "background: #fff url(x.png)",
     "background: url(x.png) rgb(1, 2, 3) #abc", "background: url(x) HSLA(0 0% 0%) center",
     "background: no-repeat Red center blue", "background: Black",
     "background: none", "background: #ggg", "background: #ab #abcdefabc",
     "margin: 0", "color", "", "color: "}
RECURSIVE Join(_, _)
Join(ss, sep) ==
    IF ss = <<>> THEN ""
    ELSE IF Len(ss) = 1 THEN ss[1]
    ELSE ss[1] \o sep \o Join(Tail(ss), sep)
Bodies ==
    {Join(d, "; ") : d \in UNION {[1..n -> Props] : n \in 0..MaxProps}}

\* _decode_chunked: bodies of up to MaxPieces pieces, and at most MaxBody
\* decoded bytes.
MaxPieces == 2
MaxBody == 24
ChunkedPieces ==
    {"3\r\nabc\r\n", "0\r\n\r\n", "\r\n", "zz\r\n", "ff\r\nab", "abc",
     "2;x=1\r\nhi\r\n", " 1 \r\nq\r\n", "0x2\r\nhi\r\n",
     "-1\r\nxy\r\n", "-6\r\n", "-a\r\n"}
ChunkedBodies ==
    {Join(d, "") : d \in UNION {[1..n -> ChunkedPieces] : n \in 0..MaxPieces}}

\* extract_colors_from_css: texts of up to MaxRules pieces of CSS.
MaxRules == 2
CssPieces ==
    {"body { color: #333; background-color: #fff; }",
     " .link { color: rgb(0,102,204); }\n",
     "/* p { color: red } */", "/* multi\nline { color: blue }\n*/",
     "p { margin: 0 }", "h1 { color: red /* ; color: blue */ }",
     "a{}", "p { color: /* red */ }", "em { /* } */ BACKGROUND: url(x) gold }",
     "@media screen { p { color: red } }", "i { background: #ggg }",
     "h1, h2\n{ color: red }"}
CssTexts ==
    {Join(d, "") : d \in UNION {[1..n -> CssPieces] : n \in 0..MaxRules}}

\* A session: up to MaxCalls calls of analyze_html, on these documents.
MaxCalls == 3
SessionDocuments ==
    {<<>>,
     StyleElement("body { color: #333; background-color: #fff; } /* c */ .link { color: #c2c }"),
     InlineElement("color:#ggg"),
     InlineElement("color: #777777; background: url(x.png) #fff")
        \o InlineElement("color: #ccc; background-color: #ddd")}
\* The module-level names the analysis reads (lines 34-115).
ModuleState ==
    [NAMED_COLORS |-> NAMED_COLORS, CONTRAST_NORMAL |-> CONTRAST_NORMAL,
     CONTRAST_LARGE |-> CONTRAST_LARGE]
\* Faulty variant of ModuleAfterAnalyze: the call rebinds a threshold.
MutModuleAfterAnalyzeRebinds(module, html_content) ==
    [module EXCEPT !.CONTRAST_NORMAL = CONTRAST_LARGE]
\* The module-level names after analyze_html(html_content): the function and
\* what it calls bind local names only and read NAMED_COLORS with "in" and
\* "[]" (lines 242-243, 401).
ModuleAfterAnalyze(module, html_content) == module

\* main: up to MaxFiles files in HTML_DIR, named after their domains.
MaxFiles == 2
Domains == <<"a.com", "b.org", "c.net">>
Files ==
    {[readable |-> FALSE, html |-> <<>>],
     [readable |-> TRUE, html |-> <<>>],
     [readable |-> TRUE, html |-> InlineElement("color:#ggg")],
     [readable |-> TRUE, html |-> InlineElement("color: black; background-color: #EEE !important")],
     [readable |-> TRUE,
      html |-> InlineElement("color:#999;background:#fff")
               \o InlineElement("color:#000;background:#fff")
               \o InlineElement("color:#ddd;background:#fff")
               \o InlineElement("color:#777;background:#fff")
               \o InlineElement("color:#bbb;background:#fff")
               \o InlineElement("color:#eee;background:#fff")
               \o InlineElement("color:#aaa;background:#fff")]}

-----------------------------------------------------------------------------
(* Specifications                                                          *)

InitContrast ==
    /\ pc = "contrast_ratio"
    /\ rgb1 \in RGBs /\ rgb2 \in RGBs /\ ratio = Idle
    /\ value = "" /\ parsed = Idle /\ html = <<>> /\ result = Idle
    /\ ext = Idle /\ fed = 0 /\ sheet = "" /\ extracted = Idle
    /\ session = <<>> /\ module_state = Idle /\ rounding = <<>>
    /\ html_files = <<>> /\ futures = <<>> /\ yielded = {} /\ results = <<>> /\ saved = Idle /\ report = Idle
    /\ chunked = "" /\ read_pos = 0 /\ decoded = ""

InitColor ==
    /\ pc = "parse_color"
    /\ value \in ColorValues /\ parsed = Idle
    /\ rgb1 = <<>> /\ rgb2 = <<>> /\ ratio = Idle /\ html = <<>> /\ result = Idle
    /\ ext = Idle /\ fed = 0 /\ sheet = "" /\ extracted = Idle
    /\ session = <<>> /\ module_state = Idle /\ rounding = <<>>
    /\ html_files = <<>> /\ futures = <<>> /\ yielded = {} /\ results = <<>> /\ saved = Idle /\ report = Idle
    /\ chunked = "" /\ read_pos = 0 /\ decoded = ""

Init ==
    /\ pc = "analyze_html"
    /\ html \in Documents /\ result = Idle
    /\ rgb1 = <<>> /\ rgb2 = <<>> /\ ratio = Idle /\ value = "" /\ parsed = Idle
    /\ ext = Idle /\ fed = 0 /\ sheet = "" /\ extracted = Idle
    /\ session = <<>> /\ module_state = Idle /\ rounding = <<>>
    /\ html_files = <<>> /\ futures = <<>> /\ yielded = {} /\ results = <<>> /\ saved = Idle /\ report = Idle
    /\ chunked = "" /\ read_pos = 0 /\ decoded = ""

ContrastRatio ==
    /\ pc = "contrast_ratio"
    /\ ratio' = contrast_ratio(rgb1, rgb2)
    /\ pc' = "done"
    /\ UNCHANGED <<rgb1, rgb2, value, parsed, html, result, ext, fed, sheet, extracted, session, module_state, rounding, html_files, futures, yielded, results, saved, report, chunked, read_pos, decoded>>

ParseColor ==
    /\ pc = "parse_color"
    /\ parsed' = parse_color(value)
    /\ pc' = "done"
    /\ UNCHANGED <<rgb1, rgb2, ratio, value, html, result, ext, fed, sheet, extracted, session, module_state, rounding, html_files, futures, yielded, results, saved, report, chunked, read_pos, decoded>>

AnalyzeHtml ==
    /\ pc = "analyze_html"
    /\ \E tie_up \in BOOLEAN : result' = analyze_html(html, tie_up)
    /\ pc' = "done"
    /\ UNCHANGED <<rgb1, rgb2, ratio, value, parsed, html, ext, fed, sheet, extracted, session, module_state, rounding, html_files, futures, yielded, results, saved, report, chunked, read_pos, decoded>>

\* extractor = StyleExtractor(); extractor.feed(html) inside try/except
\* (lines 423-429), one handler call at a time.
InitFeed ==
    /\ pc = "feed"
    /\ html \in FedDocuments /\ ext = NewExtractor /\ fed = 0
    /\ rgb1 = <<>> /\ rgb2 = <<>> /\ ratio = Idle /\ value = "" /\ parsed = Idle
    /\ result = Idle /\ sheet = "" /\ extracted = Idle
    /\ session = <<>> /\ module_state = Idle /\ rounding = <<>>
    /\ html_files = <<>> /\ futures = <<>> /\ yielded = {} /\ results = <<>> /\ saved = Idle /\ report = Idle
    /\ chunked = "" /\ read_pos = 0 /\ decoded = ""

HandleStarttag ==
    /\ pc = "feed" /\ fed < Len(html) /\ html[fed + 1].kind = "starttag"
    /\ ext' = handle_starttag(ext, html[fed + 1].tag, html[fed + 1].attrs)
    /\ fed' = fed + 1
    /\ UNCHANGED <<pc, rgb1, rgb2, ratio, value, parsed, html, result, sheet, extracted, session, module_state, rounding, html_files, futures, yielded, results, saved, report, chunked, read_pos, decoded>>

HandleEndtag ==
    /\ pc = "feed" /\ fed < Len(html) /\ html[fed + 1].kind = "endtag"
    /\ ext' = handle_endtag(ext, html[fed + 1].tag)
    /\ fed' = fed + 1
    /\ UNCHANGED <<pc, rgb1, rgb2, ratio, value, parsed, html, result, sheet, extracted, session, module_state, rounding, html_files, futures, yielded, results, saved, report, chunked, read_pos, decoded>>

HandleData ==
    /\ pc = "feed" /\ fed < Len(html) /\ html[fed + 1].kind = "data"
    /\ ext' = handle_data(ext, html[fed + 1].data)
    /\ fed' = fed + 1
    /\ UNCHANGED <<pc, rgb1, rgb2, ratio, value, parsed, html, result, sheet, extracted, session, module_state, rounding, html_files, futures, yielded, results, saved, report, chunked, read_pos, decoded>>

\* feed raises and the exception is passed over: the extractor is left as
\* the handlers made it.
FeedRaises ==
    /\ pc = "feed" /\ fed < Len(html) /\ html[fed + 1].kind = "error"
    /\ pc' = "fed"
    /\ UNCHANGED <<rgb1, rgb2, ratio, value, parsed, html, result, ext, fed, sheet, extracted, session, module_state, rounding, html_files, futures, yielded, results, saved, report, chunked, read_pos, decoded>>

FeedReturns ==
    /\ pc = "feed" /\ fed = Len(html)
    /\ pc' = "fed"
    /\ UNCHANGED <<rgb1, rgb2, ratio, value, parsed, html, result, ext, fed, sheet, extracted, session, module_state, rounding, html_files, futures, yielded, results, saved, report, chunked, read_pos, decoded>>

NextFeed ==
    HandleStarttag \/ HandleEndtag \/ HandleData \/ FeedRaises \/ FeedReturns

\* A new StyleExtractor whose handlers are called with a sequence of events.
InitEvents ==
    /\ pc = "feed"
    /\ html \in EventSequences /\ ext = NewExtractor /\ fed = 0
    /\ rgb1 = <<>> /\ rgb2 = <<>> /\ ratio = Idle /\ value = "" /\ parsed = Idle
    /\ result = Idle /\ sheet = "" /\ extracted = Idle
    /\ session = <<>> /\ module_state = Idle /\ rounding = <<>>
    /\ html_files = <<>> /\ futures = <<>> /\ yielded = {} /\ results = <<>> /\ saved = Idle /\ report = Idle
    /\ chunked = "" /\ read_pos = 0 /\ decoded = ""

\* _decode_chunked(data), one turn of its loop at a time.
InitDecode ==
    /\ pc = "_decode_chunked"
    /\ chunked \in ChunkedBodies /\ read_pos = 0 /\ decoded = ""
    /\ rgb1 = <<>> /\ rgb2 = <<>> /\ ratio = Idle /\ value = "" /\ parsed = Idle
    /\ html = <<>> /\ result = Idle /\ ext = Idle /\ fed = 0
    /\ sheet = "" /\ extracted = Idle
    /\ session = <<>> /\ module_state = Idle /\ rounding = <<>>
    /\ html_files = <<>> /\ futures = <<>> /\ yielded = {} /\ results = <<>> /\ saved = Idle /\ report = Idle

\* The loop condition fails: return bytes(result).
LoopEnds ==
    /\ pc = "_decode_chunked" /\ read_pos >= Len(chunked)
    /\ pc' = "decoded"
    /\ UNCHANGED <<rgb1, rgb2, ratio, value, parsed, html, result, ext, fed, sheet, extracted, session, module_state, rounding, html_files, futures, yielded, results, saved, report, chunked, read_pos, decoded>>

\* A turn that ends in break (lines 105-106, 115-118).
Break ==
    /\ pc = "_decode_chunked" /\ read_pos < Len(chunked)
    /\ Stops(chunked, read_pos)
    /\ pc' = "decoded"
    /\ UNCHANGED <<rgb1, rgb2, ratio, value, parsed, html, result, ext, fed, sheet, extracted, session, module_state, rounding, html_files, futures, yielded, results, saved, report, chunked, read_pos, decoded>>

\* A turn over an empty chunk size line (lines 109-111).
SkipLine ==
    /\ pc = "_decode_chunked" /\ read_pos < Len(chunked)
    /\ SkipsLine(chunked, read_pos)
    /\ read_pos' = NextPos(chunked, read_pos)
    /\ UNCHANGED <<pc, rgb1, rgb2, ratio, value, parsed, html, result, ext, fed, sheet, extracted, session, module_state, rounding, html_files, futures, yielded, results, saved, report, chunked, decoded>>

\* A turn that takes a chunk (lines 119-122).
TakeChunk ==
    /\ pc = "_decode_chunked" /\ read_pos < Len(chunked)
    /\ TakesChunk(chunked, read_pos)
    /\ Len(decoded) + Len(Chunk(chunked, read_pos)) <= MaxBody
    /\ decoded' = decoded \o Chunk(chunked, read_pos)
    /\ read_pos' = NextPos(chunked, read_pos)
    /\ UNCHANGED <<pc, rgb1, rgb2, ratio, value, parsed, html, result, ext, fed, sheet, extracted, session, module_state, rounding, html_files, futures, yielded, results, saved, report, chunked>>

NextDecode == LoopEnds \/ Break \/ SkipLine \/ TakeChunk

InitCss ==
    /\ \/ pc = "_parse_declarations" /\ sheet \in Bodies
       \/ pc = "extract_colors_from_css" /\ sheet \in CssTexts
    /\ extracted = Idle
    /\ rgb1 = <<>> /\ rgb2 = <<>> /\ ratio = Idle /\ value = "" /\ parsed = Idle
    /\ html = <<>> /\ result = Idle /\ ext = Idle /\ fed = 0
    /\ session = <<>> /\ module_state = Idle /\ rounding = <<>>
    /\ html_files = <<>> /\ futures = <<>> /\ yielded = {} /\ results = <<>> /\ saved = Idle /\ report = Idle
    /\ chunked = "" /\ read_pos = 0 /\ decoded = ""

ParseDeclarations ==
    /\ pc = "_parse_declarations"
    /\ extracted' = parse_declarations(sheet)
    /\ pc' = "declarations"
    /\ UNCHANGED <<rgb1, rgb2, ratio, value, parsed, html, result, ext, fed, sheet, session, module_state, rounding, html_files, futures, yielded, results, saved, report, chunked, read_pos, decoded>>

ExtractColorsFromCss ==
    /\ pc = "extract_colors_from_css"
    /\ extracted' = extract_colors_from_css(sheet)
    /\ pc' = "rules"
    /\ UNCHANGED <<rgb1, rgb2, ratio, value, parsed, html, result, ext, fed, sheet, session, module_state, rounding, html_files, futures, yielded, results, saved, report, chunked, read_pos, decoded>>

\* A fresh interpreter; then analyze_html is called on one document after
\* another.  Whichever way round(sum / len, 2) falls at a decimal tie, it
\* falls the same way each time the document is analyzed.
InitSession ==
    /\ pc = "session"
    /\ session = <<>> /\ module_state = ModuleState
    /\ rounding \in [SessionDocuments -> BOOLEAN]
    /\ rgb1 = <<>> /\ rgb2 = <<>> /\ ratio = Idle /\ value = "" /\ parsed = Idle
    /\ html = <<>> /\ result = Idle /\ ext = Idle /\ fed = 0
    /\ sheet = "" /\ extracted = Idle
    /\ html_files = <<>> /\ futures = <<>> /\ yielded = {} /\ results = <<>> /\ saved = Idle /\ report = Idle
    /\ chunked = "" /\ read_pos = 0 /\ decoded = ""

AnalyzeNext ==
    /\ pc = "session" /\ Len(session) < MaxCalls
    /\ \E h \in SessionDocuments :
          /\ html' = h
          /\ result' = analyze_html(h, rounding[h])
          /\ session' = Append(session, [html |-> h, result |-> result'])
          /\ module_state' = ModuleAfterAnalyze(module_state, h)
    /\ UNCHANGED <<pc, rgb1, rgb2, ratio, value, parsed, ext, fed, sheet, extracted, rounding, html_files, futures, yielded, results, saved, report, chunked, read_pos, decoded>>

\* main, from the submission of the files to the report made of what it
\* saved.
InitMain ==
    /\ pc = "main"
    /\ \E n \in 0..MaxFiles : \E fs \in [1..n -> Files] :
          /\ html_files = [i \in 1..n |-> [file |-> fs[i], domain |-> Domains[i]]]
          /\ futures = [i \in 1..n |-> Idle]
    /\ yielded = {} /\ results = <<>> /\ saved = Idle /\ report = Idle
    /\ rgb1 = <<>> /\ rgb2 = <<>> /\ ratio = Idle /\ value = "" /\ parsed = Idle
    /\ html = <<>> /\ result = Idle /\ ext = Idle /\ fed = 0
    /\ sheet = "" /\ extracted = Idle
    /\ session = <<>> /\ module_state = Idle /\ rounding = <<>>
    /\ chunked = "" /\ read_pos = 0 /\ decoded = ""

\* The worker of item i returns what process_file returns.
WorkerReturns ==
    /\ pc = "main"
    /\ \E i \in DOMAIN futures : \E tie_up \in BOOLEAN :
          /\ futures[i] = Idle
          /\ futures' = [futures EXCEPT ![i] =
                 Ret(process_file(html_files[i].file, html_files[i].domain, tie_up))]
    /\ UNCHANGED <<pc, rgb1, rgb2, ratio, value, parsed, html, result, ext, fed, sheet, extracted, session, module_state, rounding, html_files, yielded, results, saved, report, chunked, read_pos, decoded>>

\* The worker of item i ends with an exception, which future.result() will
\* raise.
WorkerRaises ==
    /\ pc = "main"
    /\ \E i \in DOMAIN futures :
          /\ futures[i] = Idle
          /\ futures' = [futures EXCEPT ![i] = Raise("Exception")]
    /\ UNCHANGED <<pc, rgb1, rgb2, ratio, value, parsed, html, result, ext, fed, sheet, extracted, session, module_state, rounding, html_files, yielded, results, saved, report, chunked, read_pos, decoded>>

\* One turn of the loop over as_completed(futures) (lines 585-603).
Collect ==
    /\ pc = "main"
    /\ \E i \in DOMAIN futures \ yielded :
          /\ futures[i] # Idle
          /\ results' = Append(results, FutureResult(futures[i], html_files[i].domain))
          /\ yielded' = yielded \cup {i}
    /\ UNCHANGED <<pc, rgb1, rgb2, ratio, value, parsed, html, result, ext, fed, sheet, extracted, session, module_state, rounding, html_files, futures, saved, report, chunked, read_pos, decoded>>

\* The loop is over; results_summary and results_full are built and written
\* (lines 605-628).
Save ==
    /\ pc = "main" /\ yielded = DOMAIN futures
    /\ saved' = [results_summary |-> Map(SummaryProjection, results),
                 results_full |-> results]
    /\ pc' = "saved"
    /\ UNCHANGED <<rgb1, rgb2, ratio, value, parsed, html, result, ext, fed, sheet, extracted, session, module_state, rounding, html_files, futures, yielded, results, report, chunked, read_pos, decoded>>

\* The report stage loads the summary file and computes from it.
Report ==
    /\ pc = "saved"
    /\ report' = [summary |-> compute_statistics(saved.results_summary),
                  csv |-> export_csv(saved.results_summary)]
    /\ pc' = "reported"
    /\ UNCHANGED <<rgb1, rgb2, ratio, value, parsed, html, result, ext, fed, sheet, extracted, session, module_state, rounding, html_files, futures, yielded, results, saved, chunked, read_pos, decoded>>

NextMain == WorkerReturns \/ WorkerRaises \/ Collect \/ Save \/ Report

Next == AnalyzeHtml

\* Calls of analyze_html.
Spec == Init /\ [][Next]_vars
\* Calls of parse_color.
SpecColor == InitColor /\ [][ParseColor]_vars
\* Calls of contrast_ratio.
SpecContrast == InitContrast /\ [][ContrastRatio]_vars
\* Calls of contrast_ratio and calls of analyze_html.
SpecRatio == (InitContrast \/ Init) /\ [][ContrastRatio \/ AnalyzeHtml]_vars
\* The handler calls of one feed.
SpecFeed == InitFeed /\ [][NextFeed]_vars
\* Calls of _parse_declarations and calls of extract_colors_from_css.
SpecCss == InitCss /\ [][ParseDeclarations \/ ExtractColorsFromCss]_vars
\* Sessions of analyze_html calls.
SpecSession == InitSession /\ [][AnalyzeNext]_vars
\* One run of main followed by the report stage.
SpecMain == InitMain /\ [][NextMain]_vars
\* Handler calls on a new StyleExtractor, in any order.
SpecEvents ==
    InitEvents /\ [][HandleStarttag \/ HandleEndtag \/ HandleData \/ FeedReturns]_vars
\* One call of _decode_chunked.
SpecDecode == InitDecode /\ [][NextDecode]_vars
-----------------------------------------------------------------------------
(* Claims                                                                  *)

\* The declarations analyze_html collected from the document of the call, in
\* the order it processes them.  Meaningful where the call returned.
Decls == AllDecls(Feed(NewExtractor, html)).val

\* The RGB a side of a declaration resolves to, None when it does not resolve.
Resolved(decl, side) ==
    IF Truthy(decl, side) THEN parse_color(decl[side]).val ELSE None

SelectorOf(decl) == IF "selector" \in DOMAIN decl THEN decl.selector ELSE ""

KeyOf(pairing) == <<pairing.fg_rgb, pairing.bg_rgb>>

\* The (fg RGB, bg RGB) pair a declaration stands for, None when neither side
\* resolves.
ExpectedKey(decl) ==
    LET fg == Resolved(decl, "color")
        bg == Resolved(decl, "background")
    IN  IF fg # None /\ bg # None THEN <<fg, bg>>
        ELSE IF fg # None THEN <<fg, <<255, 255, 255>>>>
        ELSE IF bg # None THEN <<<<0, 0, 0>>, bg>>
        ELSE None

\* A pairing is the candidate the pairing rules give for a declaration.
Matches(pairing, decl) ==
    LET fg == Resolved(decl, "color")
        bg == Resolved(decl, "background")
    IN  \/ /\ fg # None /\ bg # None
           /\ KeyOf(pairing) = <<fg, bg>>
           /\ pairing.explicit
        \/ /\ fg # None /\ bg = None
           /\ KeyOf(pairing) = <<fg, <<255, 255, 255>>>>
           /\ ~pairing.explicit
           /\ pairing.background = "#ffffff (assumed)"
        \/ /\ fg = None /\ bg # None
           /\ KeyOf(pairing) = <<<<0, 0, 0>>, bg>>
           /\ ~pairing.explicit
           /\ pairing.foreground = "#000000 (assumed)"

\* The positions of the declarations that stand for the pair of a pairing.
SameKey(pairing) ==
    {k \in 1..Len(Decls) : ExpectedKey(Decls[k]) = KeyOf(pairing)}

IsRGB(v) == Len(v) = 3 /\ \A i \in 1..3 : v[i] \in 0..255

\* C1: parse_color is total: for every input string it returns an RGB triple
\* or None and never raises an exception.
C1_Total ==
    parsed # Idle => IsRet(parsed) /\ (parsed.val = None \/ IsRGB(parsed.val))

\* C2: analyze_html returns a result and never raises, also for documents
\* whose styles declare malformed color literals.
C2_NeverRaises ==
    result # Idle => IsRet(result)

\* C3: every pairing of a result is the candidate of a declaration under the
\* pairing rules (both sides resolve: (fg, bg), explicit; only the foreground:
\* (fg, white), not explicit, background labelled "#ffffff (assumed)"; only
\* the background: (black, bg), not explicit, foreground labelled
\* "#000000 (assumed)"), a declaration neither side of which resolves gives no
\* pairing, every other declaration has its pair in the result, and a side
\* that resolves to black counts as resolved.
C3_PairingRules ==
    IsRet(result) =>
        LET ps == result.val.pairings
        IN  /\ \A i \in 1..Len(ps) : \E k \in 1..Len(Decls) : Matches(ps[i], Decls[k])
            /\ \A k \in 1..Len(Decls) :
                  ExpectedKey(Decls[k]) # None =>
                      \E i \in 1..Len(ps) : KeyOf(ps[i]) = ExpectedKey(Decls[k])
C3_Witness ==
    /\ IsRet(result)
    /\ \E k \in 1..Len(Decls) : ExpectedKey(Decls[k]) = None
    /\ LET ps == result.val.pairings
       IN  /\ \E i \in 1..Len(ps) : ps[i].explicit /\ ps[i].fg_rgb = <<0, 0, 0>>
           /\ \E i \in 1..Len(ps) : ps[i].background = "#ffffff (assumed)"
           /\ \E i \in 1..Len(ps) : ps[i].foreground = "#000000 (assumed)"

\* C4: no two pairings of a result have the same (fg_rgb, bg_rgb), and the
\* pair of every declaration that gives one appears exactly once, whatever
\* literal form the declaration used and whether its pairing was explicit or
\* defaulted.
C4_Deduplicated ==
    IsRet(result) =>
        LET ps == result.val.pairings
        IN  /\ \A i, j \in 1..Len(ps) : i # j => KeyOf(ps[i]) # KeyOf(ps[j])
            /\ \A k \in 1..Len(Decls) :
                  ExpectedKey(Decls[k]) # None =>
                      Cardinality({i \in 1..Len(ps) :
                                      KeyOf(ps[i]) = ExpectedKey(Decls[k])}) = 1
C4_Witness ==
    /\ IsRet(result)
    /\ \E j, k \in 1..Len(Decls) :
          /\ ExpectedKey(Decls[j]) # None
          /\ ExpectedKey(Decls[j]) = ExpectedKey(Decls[k])
          /\ Truthy(Decls[j], "color") /\ Truthy(Decls[k], "color")
          /\ Decls[j].color # Decls[k].color
          /\ Resolved(Decls[j], "background") # None
          /\ Resolved(Decls[k], "background") = None

\* C5, as stated: the pairing kept for a pair is attributed the selector of
\* the last declaration that resolves to the pair.
C5_LastSeenSelector ==
    IsRet(result) =>
        LET ps == result.val.pairings
        IN  \A i \in 1..Len(ps) :
                ps[i].selector = SelectorOf(Decls[SetMax(SameKey(ps[i]))])

\* C5, amended: the pairing kept for a pair is attributed the selector of the
\* first declaration that resolves to the pair.
C5_FirstSeenSelector ==
    IsRet(result) =>
        LET ps == result.val.pairings
        IN  \A i \in 1..Len(ps) :
                ps[i].selector = SelectorOf(Decls[SetMin(SameKey(ps[i]))])
C5_Witness ==
    /\ IsRet(result)
    /\ \E i \in 1..Len(result.val.pairings) :
          LET same == SameKey(result.val.pairings[i])
          IN  SelectorOf(Decls[SetMin(same)]) # SelectorOf(Decls[SetMax(same)])

\* C6, as stated: pass_normal is true exactly when the reported ratio (rounded
\* to 2 decimals) is >= 4.5, pass_large exactly when it is >= 3.0, and
\* pass_normal implies pass_large.
C6_RoundedThresholds ==
    IsRet(result) =>
        LET ps == result.val.pairings
        IN  \A i \in 1..Len(ps) :
                /\ ps[i].pass_normal <=> ps[i].ratio >= 10 * CONTRAST_NORMAL
                /\ ps[i].pass_large <=> ps[i].ratio >= 10 * CONTRAST_LARGE
                /\ ps[i].pass_normal => ps[i].pass_large

\* C6, amended: pass_normal is true exactly when the unrounded contrast ratio
\* of the pair is >= 4.5, pass_large exactly when it is >= 3.0, and
\* pass_normal implies pass_large.
C6_UnroundedThresholds ==
    IsRet(result) =>
        LET ps == result.val.pairings
        IN  \A i \in 1..Len(ps) :
                LET r == contrast_ratio(ps[i].fg_rgb, ps[i].bg_rgb)
                IN  /\ ps[i].pass_normal <=> RatioGE(r, CONTRAST_NORMAL)
                    /\ ps[i].pass_large <=> RatioGE(r, CONTRAST_LARGE)
                    /\ ps[i].pass_normal => ps[i].pass_large
C6_Witness ==
    /\ IsRet(result)
    /\ \E i \in 1..Len(result.val.pairings) :
          /\ result.val.pairings[i].ratio = 10 * CONTRAST_NORMAL
          /\ ~result.val.pairings[i].pass_normal

C8_Symmetric ==
    ratio # Idle => ratio = contrast_ratio(rgb2, rgb1)
C8_Witness ==
    /\ ratio # Idle
    /\ relative_luminance(rgb1) < relative_luminance(rgb2)
    /\ ratio.num > ratio.den

\* C9: the contrast ratio of (118,118,118) against white is >= 4.5, and that
\* of (119,119,119) against white is < 4.5 and >= 3.0.
C9_Boundary ==
    ratio # Idle /\ rgb2 = WHITE =>
        /\ rgb1 = <<118, 118, 118>> => RatioGE(ratio, CONTRAST_NORMAL)
        /\ rgb1 = <<119, 119, 119>> =>
              ~RatioGE(ratio, CONTRAST_NORMAL) /\ RatioGE(ratio, CONTRAST_LARGE)
C9_Witness ==
    /\ ratio # Idle
    /\ rgb1 = <<119, 119, 119>> /\ rgb2 = WHITE
    /\ ~RatioGE(ratio, CONTRAST_NORMAL)

\* C10: in every result total_pairings is the length of the pairings list,
\* pass_normal and pass_large are the numbers of pairings whose flag is true,
\* pass_normal + fail_normal = total_pairings = pass_large + fail_large, and
\* pass_normal <= pass_large.
C10_Counts ==
    IsRet(result) =>
        LET s == result.val
            ps == s.pairings
        IN  /\ s.total_pairings = Len(ps)
            /\ s.pass_normal = Cardinality({i \in 1..Len(ps) : ps[i].pass_normal})
            /\ s.pass_large = Cardinality({i \in 1..Len(ps) : ps[i].pass_large})
            /\ s.pass_normal + s.fail_normal = s.total_pairings
            /\ s.pass_large + s.fail_large = s.total_pairings
            /\ s.pass_normal <= s.pass_large
C10_Witness ==
    /\ IsRet(result)
    /\ 0 < result.val.pass_normal
    /\ result.val.pass_normal < result.val.pass_large
    /\ result.val.pass_large < result.val.total_pairings

\* A side of a declaration yields a color: parse_color returns an RGB for it.
Resolves(decl, side) ==
    /\ Truthy(decl, side)
    /\ IsRet(parse_color(decl[side]))
    /\ parse_color(decl[side]).val # None

\* The declarations of the document were collected and none yields a color.
NoColorResolves ==
    /\ IsRet(AllDecls(Feed(NewExtractor, html)))
    /\ \A k \in 1..Len(Decls) :
          ~Resolves(Decls[k], "color") /\ ~Resolves(Decls[k], "background")

\* C11: a document none of whose declarations yields a color produces
\* total_pairings = 0, no pairing, the four counts 0 and null for the two
\* pass rates and the worst, best, median and mean ratios; and whenever
\* total_pairings > 0 none of the six is null and both rates are in [0, 100].
C11_NullSummary ==
    /\ result # Idle /\ NoColorResolves =>
          /\ IsRet(result)
          /\ result.val.total_pairings = 0
          /\ result.val.pairings = <<>>
          /\ result.val.pass_normal = 0 /\ result.val.fail_normal = 0
          /\ result.val.pass_large = 0 /\ result.val.fail_large = 0
          /\ result.val.pass_rate_normal = None /\ result.val.pass_rate_large = None
          /\ result.val.worst_ratio = None /\ result.val.best_ratio = None
          /\ result.val.median_ratio = None /\ result.val.mean_ratio = None
    /\ IsRet(result) /\ result.val.total_pairings > 0 =>
          /\ result.val.pass_rate_normal # None /\ result.val.pass_rate_large # None
          /\ result.val.worst_ratio # None /\ result.val.best_ratio # None
          /\ result.val.median_ratio # None /\ result.val.mean_ratio # None
          /\ result.val.pass_rate_normal[1] \in 0..1000
          /\ result.val.pass_rate_large[1] \in 0..1000

\* The reported ratios of the pairings of the result, in list order.
RatiosOf(res) == [i \in 1..Len(res.pairings) |-> res.pairings[i].ratio]

\* v is the element at position k (from 1) of the ascending-sorted rs.
IsSortedAt(rs, k, v) ==
    /\ \E i \in 1..Len(rs) : rs[i] = v
    /\ Cardinality({i \in 1..Len(rs) : rs[i] < v}) < k
    /\ k <= Cardinality({i \in 1..Len(rs) : rs[i] <= v})

\* worst_ratio is the minimum and best_ratio the maximum of the ratios, and
\* the median lies between them.
WorstMedianBest(res) ==
    /\ IsSortedAt(RatiosOf(res), 1, res.worst_ratio[1])
    /\ IsSortedAt(RatiosOf(res), res.total_pairings, res.best_ratio[1])
    /\ res.worst_ratio[1] <= res.median_ratio[1]
    /\ res.median_ratio[1] <= res.best_ratio[1]

\* C12, as stated: median_ratio is the element at index n // 2 (from 0) of
\* the sorted ratios, which for an even n is the lower of the two middle
\* elements; worst_ratio <= median_ratio <= best_ratio, worst_ratio the
\* minimum and best_ratio the maximum.
C12_LowerMedian ==
    IsRet(result) /\ result.val.total_pairings > 0 =>
        LET res == result.val
            n == res.total_pairings
        IN  /\ IsSortedAt(RatiosOf(res), (n \div 2) + 1, res.median_ratio[1])
            /\ n % 2 = 0 => IsSortedAt(RatiosOf(res), n \div 2, res.median_ratio[1])
            /\ WorstMedianBest(res)

\* C12, amended: median_ratio is the element at index n // 2 (from 0) of the
\* sorted ratios, which for an even n is the upper of the two middle
\* elements; worst_ratio <= median_ratio <= best_ratio, worst_ratio the
\* minimum and best_ratio the maximum.
C12_UpperMedian ==
    IsRet(result) /\ result.val.total_pairings > 0 =>
        LET res == result.val
            n == res.total_pairings
        IN  /\ IsSortedAt(RatiosOf(res), (n \div 2) + 1, res.median_ratio[1])
            /\ n % 2 = 0 =>
                  \A i \in 1..n :
                      IsSortedAt(RatiosOf(res), n \div 2, RatiosOf(res)[i])
                          => RatiosOf(res)[i] <= res.median_ratio[1]
            /\ WorstMedianBest(res)
C12_Witness ==
    /\ IsRet(result)
    /\ result.val.total_pairings = 2
    /\ result.val.worst_ratio[1] < result.val.best_ratio[1]
    /\ result.val.median_ratio = result.val.best_ratio

HueUnit(h_str) ==
    IF endswith(h_str, "grad") THEN "grad"
    ELSE IF endswith(h_str, "rad") THEN "rad"
    ELSE IF endswith(h_str, "turn") THEN "turn"
    ELSE IF endswith(h_str, "deg") THEN "deg"
    ELSE ""
HueDegrees(h_str) ==
    LET u == HueUnit(h_str)
        f == ParseFloat(SubSeq(h_str, 1, Len(h_str) - Len(u)))
    IN  IF IsRaise(f) \/ f.val.kind # "fin" THEN f
        ELSE Ret(Fin(CASE u = "turn" -> f.val.milli * 360
                       [] u = "rad" -> TruncDiv(f.val.milli * RadToDeg, FloatScale)
                       [] u = "grad" -> TruncDiv(f.val.milli * 9, 10)
                       [] OTHER -> f.val.milli))

\* C14: for a hue written as a number with or without a unit, parse_hsl
\* returns the RGB of the hue converted to degrees (bare and deg unchanged,
\* turn x 360, rad x 180/pi, grad x 0.9): "hsl(400grad, 100%, 50%)" gives the
\* RGB of "hsl(360, 100%, 50%)" and "hsl(0.5turn, 100%, 50%)" that of
\* "hsl(180, 100%, 50%)".
C14_HueUnits ==
    parsed # Idle =>
        /\ value = "hsl(400grad, 100%, 50%)" => parsed = parse_color("hsl(360, 100%, 50%)")
        /\ value = "hsl(0.5turn, 100%, 50%)" => parsed = parse_color("hsl(180, 100%, 50%)")
        /\ LET m == FuncMatch(lower(strip(value)), "hsl")
               parts == FuncParts(m[1])
           IN  /\ m # <<>>
               /\ Len(parts) >= 3
               /\ IsRet(HueDegrees(parts[1]))
               /\ HueDegrees(parts[1]).val.kind = "fin"
               => parsed = HslOfFloats(HueDegrees(parts[1]),
                                       ParseFloat(replace(parts[2], "%", "")),
                                       ParseFloat(replace(parts[3], "%", "")))

\* The characters after the "#" of a hex literal, lower-cased; "" for a value
\* that is not one "#" followed by other characters.
HexBody(v) ==
    IF startswith(lower(strip(v)), "#") /\ ~startswith(lower(strip(v)), "##")
    THEN SubSeq(lower(strip(v)), 2, Len(lower(strip(v))))
    ELSE ""
AllHex(s) == \A i \in 1..Len(s) : IsHexDigit(Ch(s, i))

\* C15: after "#", lengths 3 and 4 double each of the first three digits,
\* lengths 6 and 8 read the first three digit pairs, the alpha digits do not
\* change the result, and every other length gives None.
C15_HexLengths ==
    parsed # Idle /\ startswith(lower(strip(value)), "#") /\ HexBody(value) # "" =>
        LET s == HexBody(value)
            d(i) == DigitOf[Ch(s, i)]
        IN  /\ Len(s) \in {3, 4} /\ AllHex(SubSeq(s, 1, 3)) =>
                  /\ parsed = Ret(<<17 * d(1), 17 * d(2), 17 * d(3)>>)
                  /\ parsed = parse_color("#" \o SubSeq(s, 1, 3))
            /\ Len(s) \in {6, 8} /\ AllHex(SubSeq(s, 1, 6)) =>
                  /\ parsed = Ret(<<16 * d(1) + d(2), 16 * d(3) + d(4), 16 * d(5) + d(6)>>)
                  /\ parsed = parse_color("#" \o SubSeq(s, 1, 6))
            /\ Len(s) \notin {3, 4, 6, 8} => parsed = Ret(None)
C15_Witness ==
    /\ value = "#f0f0"
    /\ parsed = Ret(<<255, 0, 255>>)

\* rgb() literals with the channels they are written with, in order: <<n, pct>>
\* is the number n, a percentage when pct; what follows the third channel
\* is the alpha or is surplus.
RgbCases ==
    { [text |-> "rgb(255, 255, 255)", chans |-> <<<<255, FALSE>>, <<255, FALSE>>, <<255, FALSE>>>>],
      [text |-> "rgb(255 255 255)", chans |-> <<<<255, FALSE>>, <<255, FALSE>>, <<255, FALSE>>>>],
      [text |-> "rgb(0 0 0 / 50%)", chans |-> <<<<0, FALSE>>, <<0, FALSE>>, <<0, FALSE>>>>],
      [text |-> "rgba(10%, 300, -5, 0.5)", chans |-> <<<<10, TRUE>>, <<300, FALSE>>, <<-5, FALSE>>>>],
      [text |-> "rgb(10% 300 -5 / 0.9)", chans |-> <<<<10, TRUE>>, <<300, FALSE>>, <<-5, FALSE>>>>],
      [text |-> "rgb(10%, 300, -5)", chans |-> <<<<10, TRUE>>, <<300, FALSE>>, <<-5, FALSE>>>>],
      [text |-> "rgb(1, 2, 3, 4, 5)", chans |-> <<<<1, FALSE>>, <<2, FALSE>>, <<3, FALSE>>>>],
      [text |-> "rgb(1,2,3,x)", chans |-> <<<<1, FALSE>>, <<2, FALSE>>, <<3, FALSE>>>>],
      [text |-> "RGB( 100% , 50% , 0% )", chans |-> <<<<100, TRUE>>, <<50, TRUE>>, <<0, TRUE>>>>],
      [text |-> "rgb(1, 2)", chans |-> <<<<1, FALSE>>, <<2, FALSE>>>>],
      [text |-> "rgb(1 2 / 3)", chans |-> <<<<1, FALSE>>, <<2, FALSE>>>>] }
\* The channel written as ch: the number, or the percentage of 255 (whole
\* part), clamped to [0, 255].
ExpectedChannel(ch) ==
    LET n == IF ch[2] THEN (ch[1] * 255) \div 100 ELSE ch[1]
    IN  IF n < 0 THEN 0 ELSE IF n > 255 THEN 255 ELSE n
ExpectedRgb(chans) ==
    IF Len(chans) < 3 THEN None
    ELSE <<ExpectedChannel(chans[1]), ExpectedChannel(chans[2]), ExpectedChannel(chans[3])>>

\* C16: an rgb()/rgba() literal with comma- or space-separated channels and
\* an optional alpha after "," or "/" gives its first three channels, each the
\* number or the percentage of 255, clamped to [0, 255]; fewer than three
\* channels give None; the alpha does not change the result.
C16_RgbChannels ==
    \A c \in RgbCases :
        parsed # Idle /\ value = c.text => parsed = Ret(ExpectedRgb(c.chans))

\* hsl() literals with the hue in degrees and the saturation and lightness
\* in percent they are written with.
HslCases ==
    { [text |-> "hsl(0, 100%, 50%)", h |-> 0, s |-> 100, l |-> 50],
      [text |-> "hsl(360, 100%, 50%)", h |-> 360, s |-> 100, l |-> 50],
      [text |-> "hsl(120, 100%, 50%)", h |-> 120, s |-> 100, l |-> 50],
      [text |-> "hsl(480, 100%, 50%)", h |-> 480, s |-> 100, l |-> 50],
      [text |-> "hsl(240, 100%, 50%)", h |-> 240, s |-> 100, l |-> 50],
      [text |-> "hsl(-120, 100%, 50%)", h |-> -120, s |-> 100, l |-> 50],
      [text |-> "hsl(180, 100%, 50%)", h |-> 180, s |-> 100, l |-> 50],
      [text |-> "hsl(-30, 60%, 40%)", h |-> -30, s |-> 60, l |-> 40],
      [text |-> "hsl(330, 60%, 40%)", h |-> 330, s |-> 60, l |-> 40],
      [text |-> "hsl(690, 60%, 40%)", h |-> 690, s |-> 60, l |-> 40],
      [text |-> "hsl(77, 30%, 0%)", h |-> 77, s |-> 30, l |-> 0],
      [text |-> "hsl(77, 30%, 100%)", h |-> 77, s |-> 30, l |-> 100],
      [text |-> "hsl(200, 200%, 0%)", h |-> 200, s |-> 200, l |-> 0],
      [text |-> "hsl(200, 200%, 100%)", h |-> 200, s |-> 200, l |-> 100] }

\* C17: at saturation 100% and lightness 50% the hues 0, 120 and 240 give
\* red, green and blue; lightness 0% gives black and lightness 100% white
\* whatever the hue and saturation; hues that differ by a multiple of 360,
\* negative ones included, give the same RGB.
C17_SixSectors ==
    \A c \in HslCases :
        parsed # Idle /\ value = c.text =>
            /\ c.s = 100 /\ c.l = 50 /\ c.h % 360 = 0 => parsed = Ret(<<255, 0, 0>>)
            /\ c.s = 100 /\ c.l = 50 /\ c.h % 360 = 120 => parsed = Ret(<<0, 255, 0>>)
            /\ c.s = 100 /\ c.l = 50 /\ c.h % 360 = 240 => parsed = Ret(<<0, 0, 255>>)
            /\ c.l = 0 => parsed = Ret(BLACK)
            /\ c.l = 100 => parsed = Ret(WHITE)
            /\ \A d \in HslCases :
                   d.s = c.s /\ d.l = c.l /\ (d.h - c.h) % 360 = 0 =>
                       parsed = parse_color(d.text)
C17_Witness ==
    /\ value = "hsl(690, 60%, 40%)"
    /\ parsed = Ret(<<163, 41, 102>>)

\* s with every ASCII lower-case letter replaced by its upper-case letter.
RECURSIVE upper(_)
upper(s) ==
    IF s = "" THEN ""
    ELSE (IF \E i \in 1..26 : Ch(LowerCase, i) = Head(s)
          THEN Ch(UpperCase, CHOOSE i \in 1..26 : Ch(LowerCase, i) = Head(s))
          ELSE Head(s)) \o upper(Tail(s))
\* v with its letter case or its surrounding whitespace changed.
CaseSpaceVariants(v) ==
    {upper(v), lower(v), " " \o v, v \o "\n", "\t" \o upper(v) \o "  ", strip(v)}
KeywordTokens ==
    {"transparent", "inherit", "initial", "unset", "currentcolor", "none",
     "auto", "revert"}

\* C18: a keyword token, in any letter case and with any surrounding
\* whitespace, gives None; and a value gives the same result as the value
\* with its letter case or its surrounding whitespace changed.
C18_CaseAndSpace ==
    parsed # Idle =>
        /\ lower(strip(value)) \in KeywordTokens => parsed = Ret(None)
        /\ \A w \in CaseSpaceVariants(value) : parse_color(w) = parsed
C18_Witness ==
    /\ value = "\tNone\n"
    /\ parsed = Ret(None)
    /\ parse_color("NONE") = parsed

\* The value is looked up by name: it is not a keyword token and does not
\* begin with "#", "rgb" or "hsl" once trimmed and lower-cased.
IsNameLookup(v) ==
    /\ lower(strip(v)) \notin KeywordTokens
    /\ ~startswith(lower(strip(v)), "#")
    /\ ~startswith(lower(strip(v)), "rgb")
    /\ ~startswith(lower(strip(v)), "hsl")

\* C19: a value looked up by name gives the table's RGB exactly when its
\* trimmed, lower-cased form is a key of the named-color table, and None
\* otherwise; a value that only contains or begins a name gives None.
C19_NamedExact ==
    parsed # Idle /\ IsNameLookup(value) =>
        /\ lower(strip(value)) \in DOMAIN NAMED_COLORS
               => parsed = Ret(NAMED_COLORS[lower(strip(value))])
        /\ lower(strip(value)) \notin DOMAIN NAMED_COLORS => parsed = Ret(None)
        /\ lower(strip(value)) = "rebeccapurple" => parsed = Ret(<<102, 51, 153>>)
        /\ lower(strip(value)) = "cornflowerblue" => parsed = Ret(<<100, 149, 237>>)
        /\ value \in {"whit", "whitee", "xblack", "dark blue", "red blue", "white;"}
               => parsed = Ret(None)
C19_Witness ==
    /\ value = "cornflowerblue"
    /\ parsed = Ret(<<100, 149, 237>>)

\* The value of the style attribute of a start tag, "" when it has none.
StyleAttr(e) ==
    IF \E i \in 1..Len(e.attrs) : e.attrs[i][1] = "style"
    THEN e.attrs[CHOOSE i \in 1..Len(e.attrs) : e.attrs[i][1] = "style"][2]
    ELSE ""
\* The non-empty style attribute values of the start tags of evs, in order.
RECURSIVE StyleValuesIn(_)
StyleValuesIn(evs) ==
    IF evs = <<>> THEN <<>>
    ELSE (IF Head(evs).kind = "starttag" /\ StyleAttr(Head(evs)) # ""
          THEN <<StyleAttr(Head(evs))>> ELSE <<>>) \o StyleValuesIn(Tail(evs))
IsStyleTag(e, kind) == e.kind = kind /\ e.tag = "style"
\* evs[i] opens the <style> element that evs[j] closes.
ClosesAt(evs, i, j) ==
    /\ i < j
    /\ IsStyleTag(evs[i], "starttag") /\ IsStyleTag(evs[j], "endtag")
    /\ \A k \in (i + 1)..(j - 1) : evs[k].kind = "data"
RECURSIVE DataIn(_, _, _)
DataIn(evs, i, j) ==
    IF i > j THEN "" ELSE evs[i].data \o DataIn(evs, i + 1, j)
\* The contents of the <style> elements closed among the first n events of
\* evs, in order.
RECURSIVE StyleContentsIn(_, _)
StyleContentsIn(evs, n) ==
    IF n = 0 THEN <<>>
    ELSE StyleContentsIn(evs, n - 1) \o
         (IF \E i \in 1..n : ClosesAt(evs, i, n)
          THEN <<DataIn(evs, 1 + CHOOSE i \in 1..n : ClosesAt(evs, i, n), n - 1)>>
          ELSE <<>>)
\* The events before the place where feed raises, all of them when it does
\* not.
BeforeError(evs) ==
    IF \E i \in 1..Len(evs) : evs[i].kind = "error"
    THEN SubSeq(evs, 1, SetMin({i \in 1..Len(evs) : evs[i].kind = "error"}) - 1)
    ELSE evs

\* C20: while a document is fed and after it, the extractor holds the
\* non-empty style attribute values of the start tags handled so far, in
\* document order, and the contents of the <style> elements closed so far,
\* in document order; when feed has returned or raised it holds those of
\* everything before the place of the error, which is what analyze_html
\* goes on with.
C20_ExtractedInOrder ==
    pc \in {"feed", "fed"} =>
        /\ ext.inline_styles = StyleValuesIn(SubSeq(html, 1, fed))
        /\ ext.style_blocks = StyleContentsIn(html, fed)
        /\ pc = "fed" =>
               /\ SubSeq(html, 1, fed) = BeforeError(html)
               /\ ext = Feed(NewExtractor, html)
C20_Witness ==
    /\ pc = "fed"
    /\ fed < Len(html)
    /\ html[fed + 1].kind = "error"
    /\ ext.inline_styles = <<"color: #c2c">>
    /\ ext.style_blocks = <<"p{color:#333}">>

\* Pieces "property: value" of a declaration body with the key and the value
\* they are to be stored under.
DeclCases ==
    { [text |-> "COLOR : #333 !IMPORTANT", key |-> "color", val |-> "#333"],
      [text |-> "color:#ABC", key |-> "color", val |-> "#ABC"],
      [text |-> "color: a:b !Important ", key |-> "color", val |-> "a:b"],
      [text |-> "color: ", key |-> "color", val |-> ""],
      [text |-> "background-color: #FFF", key |-> "background", val |-> "#FFF"],
      [text |-> "Background-Color:rgb(0, 0, 0)!important", key |-> "background",
       val |-> "rgb(0, 0, 0)"] }
\* The piece c is the last one of body that sets c.key: it ends the body, or
\* it begins it and the piece after it is about another property.
SetsLast(body, c) ==
    \/ body = c.text
    \/ endswith(body, "; " \o c.text)
    \/ \E r \in Props : /\ body = c.text \o "; " \o r
                        /\ ~startswith(lower(r), c.key)

\* C21: in a declaration body the pieces are separated by ";", a piece is
\* split at its first ":", the property name is lower-cased, the value is
\* trimmed and loses a trailing "!important" in any letter case, and the
\* values of color and background-color are stored as they then are.
C21_Declarations ==
    pc = "declarations" /\ IsRet(extracted) =>
        \A c \in DeclCases :
            SetsLast(sheet, c) =>
                /\ c.key \in DOMAIN extracted.val
                /\ extracted.val[c.key] = c.val
C21_Witness ==
    /\ pc = "declarations"
    /\ sheet = "COLOR : #333 !IMPORTANT; Background-Color:rgb(0, 0, 0)!important"
    /\ extracted = Ret([color |-> "#333", background |-> "rgb(0, 0, 0)"])

\* Values of the background shorthand with the color that is to be taken
\* from them, "" when none of the four steps matches.
ShorthandCases ==
    { [text |-> "Black", color |-> "Black"],
      [text |-> "#fff url(x.png)", color |-> "#fff"],
      [text |-> "url(x.png) rgb(1, 2, 3) #abc", color |-> "#abc"],
      [text |-> "url(x) HSLA(0 0% 0%) center", color |-> "HSLA(0 0% 0%)"],
      [text |-> "no-repeat Red center blue", color |-> "red"],
      [text |-> "url(http://x.png) no-repeat", color |-> ""],
      [text |-> "none", color |-> ""],
      [text |-> "#ab #abcdefabc", color |-> ""],
      [text |-> "#ggg", color |-> ""] }
ShorthandHolds(c) ==
    /\ sheet = "background: " \o c.text =>
           extracted = Ret(IF c.color # "" THEN [background |-> c.color] ELSE EmptyDict)
    /\ sheet = "background-color: #FFF; background: " \o c.text =>
           extracted = Ret([background |-> IF c.color # "" THEN c.color ELSE "#FFF"])

\* C22: the color of a background shorthand is the whole value when it
\* parses as a color, else its first "#hex" token, else its first rgb()/hsl()
\* call, else its first token that is a named color; when there is none the
\* background of the record stays as it was, unset or the value of an earlier
\* background-color.
C22_Shorthand ==
    pc = "declarations" => \A c \in ShorthandCases : ShorthandHolds(c)
\* The same for the shorthands whose whole value parse_color takes without
\* raising.
C22_ShorthandParsed ==
    pc = "declarations" =>
        \A c \in ShorthandCases : c.text # "#ggg" => ShorthandHolds(c)

\* Pieces of CSS with the records they are to give.
CssCases ==
    { [text |-> "body { color: #333; background-color: #fff; }",
       recs |-> <<[selector |-> "body", color |-> "#333", background |-> "#fff"]>>],
      [text |-> " .link { color: rgb(0,102,204); }\n",
       recs |-> <<[selector |-> ".link", color |-> "rgb(0,102,204)"]>>],
      [text |-> "/* p { color: red } */", recs |-> <<>>],
      [text |-> "/* multi\nline { color: blue }\n*/", recs |-> <<>>],
      [text |-> "p { margin: 0 }", recs |-> <<>>],
      [text |-> "h1 { color: red /* ; color: blue */ }",
       recs |-> <<[selector |-> "h1", color |-> "red"]>>],
      [text |-> "a{}", recs |-> <<>>],
      [text |-> "p { color: /* red */ }", recs |-> <<>>],
      [text |-> "em { /* } */ BACKGROUND: url(x) gold }",
       recs |-> <<[selector |-> "em", background |-> "gold"]>>],
      [text |-> "@media screen { p { color: red } }",
       recs |-> <<[selector |-> "p", color |-> "red"]>>],
      [text |-> "h1, h2\n{ color: red }",
       recs |-> <<[selector |-> "h1, h2", color |-> "red"]>>] }
RECURSIVE TextOf(_)
TextOf(cs) == IF cs = <<>> THEN "" ELSE Head(cs).text \o TextOf(Tail(cs))
RECURSIVE RecordsOf(_)
RecordsOf(cs) == IF cs = <<>> THEN <<>> ELSE Head(cs).recs \o RecordsOf(Tail(cs))

\* C23: comments, multi-line ones included, are removed before the rules
\* are split, so that what a comment holds gives no record and changes none;
\* each rule whose body sets a non-empty color or background gives one
\* record with the trimmed selector, in order, and the other rules give
\* none.
C23_RulesWithoutComments ==
    pc = "rules" /\ IsRet(extracted) =>
        \A n \in 0..MaxRules : \A cs \in [1..n -> CssCases] :
            sheet = TextOf(cs) => extracted.val = RecordsOf(cs)
C23_Witness ==
    /\ pc = "rules"
    /\ sheet = "/* multi\nline { color: blue }\n*/h1 { color: red /* ; color: blue */ }"
    /\ extracted = Ret(<<[selector |-> "h1", color |-> "red"]>>)

C25_ProcessFile ==
    \A i \in DOMAIN futures : IsRet(futures[i]) =>
        LET r == futures[i].val
            file == html_files[i].file
            analysis == analyze_html(file.html, TRUE)
            other == analyze_html(file.html, FALSE)
            fields == [k \in DOMAIN r \ {"domain", "status"} |-> r[k]]
        IN  /\ r.domain = html_files[i].domain
            /\ IF file.readable /\ IsRet(analysis)
               THEN /\ r.status = "analyzed"
                    /\ fields = analysis.val \/ fields = other.val
               ELSE /\ r.status = "error"
                    /\ DOMAIN r = {"domain", "status", "error"}
                    /\ r.error \in {"OSError", "ValueError"}
C25_Witness ==
    /\ Len(futures) = 2
    /\ IsRet(futures[1]) /\ futures[1].val.status = "error"
    /\ ~html_files[1].file.readable
    /\ IsRet(futures[2]) /\ futures[2].val.status = "analyzed"
    /\ futures[2].val.total_pairings = 0


\* The positions of the failing pairings of a result.
FailingIn(r) == {i \in 1..Len(r.pairings) : ~r.pairings[i].pass_normal}

\* C26: the entry of results_summary for a result has every field of the
\* result but pairings, each with its value; when the result has a pairing,
\* worst_pairings holds the five failing pairings of the lowest ratios (all
\* of them when there are fewer), in ascending order of ratio; and
\* results_full holds the result as the worker returned it.
C26_SummaryProjection ==
    pc \in {"saved", "reported"} =>
        /\ Len(saved.results_summary) = Len(results)
        /\ Len(saved.results_full) = Len(results)
        /\ \A j \in 1..Len(results) :
             LET r == saved.results_full[j]
                 s == saved.results_summary[j]
             IN  /\ \E i \in DOMAIN futures :
                       r = FutureResult(futures[i], html_files[i].domain)
                 /\ "pairings" \notin DOMAIN s
                 /\ \A k \in DOMAIN r \ {"pairings"} : k \in DOMAIN s /\ s[k] = r[k]
                 /\ DOMAIN s \subseteq DOMAIN r \cup {"worst_pairings"}
                 /\ "worst_pairings" \in DOMAIN s <=>
                       ("pairings" \in DOMAIN r /\ r.pairings # <<>>)
                 /\ "worst_pairings" \in DOMAIN s =>
                       LET w == s.worst_pairings
                       IN  /\ Len(w) = Min(5, Cardinality(FailingIn(r)))
                           /\ \A m \in 1..Len(w) :
                                 /\ ~w[m].pass_normal
                                 /\ \E i \in FailingIn(r) : r.pairings[i] = w[m]
                                 /\ m < Len(w) => w[m].ratio <= w[m + 1].ratio
                           /\ \A i \in FailingIn(r) :
                                 \/ \E m \in 1..Len(w) : w[m] = r.pairings[i]
                                 \/ \A m \in 1..Len(w) : w[m].ratio <= r.pairings[i].ratio
C26_Witness ==
    /\ pc = "saved"
    /\ \E j \in 1..Len(results) :
          /\ results[j].status = "analyzed"
          /\ Len(saved.results_full[j].pairings) = 7
          /\ Cardinality(FailingIn(results[j])) = 6
          /\ Len(saved.results_summary[j].worst_pairings) = 5
          /\ saved.results_summary[j].worst_pairings[1] # results[j].pairings[1]
    /\ \E j \in 1..Len(results) : results[j].status = "error"


\* C28: in whatever order the futures complete, and whether each worker
\* returns or raises, results has one record for every future yielded so
\* far and, when the loop is over, exactly one for every file: the record of
\* a file carries its domain and is what its own worker returned (which
\* process_file computes from that file alone) or the error record of its
\* own exception.
C28_OneRecordPerFile ==
    /\ Len(results) = Cardinality(yielded)
    /\ \A i \in yielded :
          \E j \in 1..Len(results) :
             /\ results[j].domain = html_files[i].domain
             /\ \A m \in 1..Len(results) : results[m].domain = results[j].domain => m = j
             /\ IF IsRaise(futures[i])
                THEN results[j] = ErrorRecord(html_files[i].domain, futures[i].exc)
                ELSE /\ results[j] = futures[i].val
                     /\ \E tie_up \in BOOLEAN :
                          results[j] = process_file(html_files[i].file, html_files[i].domain, tie_up)
    /\ pc \in {"saved", "reported"} =>
          /\ yielded = DOMAIN html_files
          /\ Len(results) = Len(html_files)
C28_Witness ==
    /\ pc = "saved" /\ Len(html_files) = 2 /\ Len(results) = 2
    /\ results[1].domain = html_files[2].domain
    /\ results[2].domain = html_files[1].domain
    /\ IsRaise(futures[2]) /\ results[1].status = "error"
    /\ IsRet(futures[1]) /\ results[2].status = "analyzed"
    /\ results[2].total_pairings = 7


\* The domains of the saved records that the analysis stage marked with the
\* given status, and of those it found pairings in.
MarkedAs(status) ==
    {saved.results_summary[j].domain : j \in
        {m \in 1..Len(saved.results_summary) : saved.results_summary[m].status = status}}
MarkedWithColors ==
    {saved.results_summary[j].domain : j \in
        {m \in 1..Len(saved.results_summary) :
            /\ saved.results_summary[m].status = "analyzed"
            /\ saved.results_summary[m].total_pairings > 0}}

\* C29: the report stage counts every record the analysis stage marked as
\* analyzed as an analysed domain, every such record with a pairing as a
\* domain with color data and a row of the CSV export, and only the records
\* marked as errors as failed.
C29_AnalyzedCounted ==
    pc = "reported" =>
        /\ report.csv = MarkedWithColors
        /\ MarkedWithColors # {} =>
              /\ "domains_analysed" \in DOMAIN report.summary
              /\ report.summary.domains_analysed = Cardinality(MarkedAs("analyzed"))
              /\ report.summary.domains_with_color_data = Cardinality(MarkedWithColors)
              /\ report.summary.domains_failed = Cardinality(MarkedAs("error"))


\* The place of the last <style> start tag, and of the last </style> end
\* tag, before the event j of evs; 0 when there is none.
LastStyleTag(evs, kind, j) ==
    SetMax({0} \cup {i \in 1..(j - 1) : IsStyleTag(evs[i], kind)})
\* in_style is set when the event j of evs is handled.
InStyleAt(evs, j) ==
    LastStyleTag(evs, "starttag", j) > LastStyleTag(evs, "endtag", j)
\* The data events of evs from i to j, concatenated.
RECURSIVE DataFrom(_, _, _)
DataFrom(evs, i, j) ==
    IF i > j THEN ""
    ELSE (IF evs[i].kind = "data" THEN evs[i].data ELSE "") \o DataFrom(evs, i + 1, j)
\* One entry for each </style> among the first n events of evs that is
\* handled with in_style set: the data since the most recent <style>.
RECURSIVE BlocksIn(_, _)
BlocksIn(evs, n) ==
    IF n = 0 THEN <<>>
    ELSE BlocksIn(evs, n - 1) \o
         (IF IsStyleTag(evs[n], "endtag") /\ InStyleAt(evs, n)
          THEN <<DataFrom(evs, LastStyleTag(evs, "starttag", n) + 1, n - 1)>>
          ELSE <<>>)

\* C27: after any sequence of handler calls, style_blocks has one entry for
\* each </style> handled with in_style set, in the order of the events, each
\* the concatenation of the data received since the most recent <style>
\* start tag; so data received with in_style unset, a </style> with in_style
\* unset, and the text of a <style> that is not closed or is opened again
\* add nothing.
C27_StyleBlocks ==
    pc \in {"feed", "fed"} =>
        /\ ext.style_blocks = BlocksIn(html, fed)
        /\ Len(ext.style_blocks) =
              Cardinality({j \in 1..fed : IsStyleTag(html[j], "endtag") /\ InStyleAt(html, j)})
        /\ ext.in_style = InStyleAt(html, fed + 1)
C27_Witness ==
    /\ pc = "fed" /\ fed = 5
    /\ IsStyleTag(html[1], "starttag") /\ html[2].kind = "data" /\ html[2].data = "a{}"
    /\ IsStyleTag(html[3], "starttag") /\ html[4].kind = "data" /\ html[4].data = "b"
    /\ IsStyleTag(html[5], "endtag")
    /\ ext.style_blocks = <<"b">>
\* A </style> with no <style> open, data outside a <style>, and a <style>
\* left open.
C27_WitnessUnset ==
    /\ pc = "fed" /\ fed = 5
    /\ IsStyleTag(html[1], "endtag") /\ html[2].kind = "data"
    /\ IsStyleTag(html[3], "starttag") /\ html[4].kind = "data"
    /\ html[5].kind = "endtag" /\ html[5].tag = "p"
    /\ ext.style_blocks = <<>> /\ ext.in_style


\* C30: every turn of the loop of _decode_chunked stops the loop or leaves
\* the read position greater than it was.
C30_Advances ==
    [][pc = "_decode_chunked" => (pc' = "decoded" \/ read_pos' > read_pos)]_vars
\* The call returns what the chunks hold when every chunk size is a
\* positive number.
C30_Decoded ==
    pc = "decoded" =>
        /\ chunked = "3\r\nabc\r\n0\r\n\r\n" => decoded = "abc"
        /\ chunked = "0x2\r\nhi\r\n 1 \r\nq\r\n" => decoded = "hiq"
        /\ chunked = "\r\n2;x=1\r\nhi\r\n" => decoded = "hi"
        /\ chunked = "ff\r\nabzz\r\n" => decoded = "abzz\r\n"

=============================================================================
